---- MODULE Spec2Model ----
(***************************************************************************)
(* Keyvox desktop client: the WebSocket protocol client (KeyvoxWsClient,   *)
(* lib/websocket.ts) and the parts of App.svelte that drive it.            *)
(*                                                                         *)
(* The browser runs everything on one event loop.  One action of the model *)
(* is one macrotask: a call from outside, a socket event, a timer firing,  *)
(* together with the promise continuations (microtasks) it releases.       *)
(*                                                                         *)
(* The handlers of the source are operators from a state record to a state *)
(* record, so that a handler that calls another one is their composition;  *)
(* Cur is the record of the current state and Set(r) installs a record.    *)
(***************************************************************************)
EXTENDS Integers, Sequences, FiniteSets, TLC

VARIABLES
  ws,                \* KeyvoxWsClient.ws: 0 is null, otherwise a socket id
  socks,             \* the WebSocket objects that can still raise an event
  requestCounter,    \* KeyvoxWsClient.requestCounter
  pending,           \* KeyvoxWsClient.pending: request key -> PendingRequest
  timers,            \* armed deadline timers of sendCommand, by timeoutId
  calls,             \* the promise of every sendCommand call that registered
  wire,              \* command frames handed to WebSocket.send, in order
  connectionStatus,  \* App.svelte connectionStatus
  backendRunning,    \* App.svelte backendRunning
  boundPort,         \* App.svelte boundPort: 0 is null
  reconnectTimer,    \* App.svelte reconnectTimer: 0 is null, else a handle
  reconnectTimeouts, \* timeouts armed by scheduleReconnect: handle -> delay
  reconnectAttempts, \* App.svelte reconnectAttempts
  reconnectInFlight, \* App.svelte reconnectInFlight
  reconnectPaused,   \* App.svelte reconnectPaused
  backendManaged,    \* App.svelte backendManaged
  booting,           \* App.svelte booting
  mounted,           \* the component: "created", "mounted" or "destroyed"
  invokes,           \* host commands in flight, each with the function
                     \* that awaits its reply
  runtimeBlockingMessage,
    \* App.svelte runtimeBlockingMessage
  engineState,
    \* App.svelte engineState
  lastTranscript,
    \* App.svelte lastTranscript
  lastError,
    \* App.svelte lastError
  historyEntries,
    \* App.svelte historyEntries: entries by their id
  modelDownloadState,
    \* App.svelte modelDownloadState
  modelDownloadProgressPct,
    \* App.svelte modelDownloadProgressPct
  modelDownloadMessage,
    \* App.svelte modelDownloadMessage
  modelDownloadBytes,
    \* App.svelte modelDownloadBytesTotal, modelDownloadBytesDone and
    \* modelDownloadBytesRemaining
  storageMigrationState,
    \* App.svelte storageMigrationState
  storageMigrationProgressPct,
    \* App.svelte storageMigrationProgressPct
  storageMigrationMessage,
    \* App.svelte storageMigrationMessage
  dictionaryEntries,
    \* App.svelte dictionaryEntries: key -> value
  lastOp,            \* the macrotask that ran last and what came of it
  seedPort,          \* the argument of an orderedPorts call
  candidates         \* what that call returned, <<>> before it

vars == <<ws, socks, requestCounter, pending, timers, calls, wire,
          connectionStatus, backendRunning, boundPort, reconnectTimer,
          reconnectTimeouts, reconnectAttempts, reconnectInFlight,
          reconnectPaused, backendManaged, booting, mounted, invokes,
          runtimeBlockingMessage, engineState, lastTranscript, lastError,
          historyEntries, modelDownloadState, modelDownloadProgressPct,
          modelDownloadMessage, modelDownloadBytes,
          storageMigrationState, storageMigrationProgressPct,
          storageMigrationMessage,
          dictionaryEntries, lastOp, seedPort, candidates>>

(***************************************************************************)
(* Bounds of the model.                                                    *)
(***************************************************************************)
MaxSockets == 1      \* WebSocket objects that can still raise an event
MaxReq == 2          \* sendCommand calls that register a request
MaxAppSockets == 2   \* the same two bounds for the page with its supervisor
MaxAppReq == 2
MaxAppPorts == 2     \* ports from DEFAULT_PORT on where a backend may listen
SeedSpan == 50       \* seeds tried on either side of the base window
MaxTimeouts == 2     \* handles of reconnect timeouts that may fire
MaxLifeReq == 8      \* requests of the page from its construction on
MaxInvokes == 1      \* host commands in flight
MaxSupReq == 2       \* requests of the page whose connects do not overlap
MaxSettleReq == 1    \* requests of the client whose deadline timers fire
MaxEntryId == 102    \* rows the backend writes to its history
MaxJobReq == 1       \* get_capabilities requests after a download
MaxPageReq == 2      \* get_history requests of the Refresh History button
MaxOverlayReq == 2   \* requests of the page while its two jobs run
MaxHydrateReq == 7   \* requests of one hydrateFromServer
MaxPageEntry == 2    \* rows the backend writes while the page refreshes

(***************************************************************************)
(* Program constants.                                                      *)
(***************************************************************************)
DEFAULT_PORT == 9876
PORT_WINDOW == 10
MAX_RECONNECT_ATTEMPTS == 5
BASE_RECONNECT_DELAY_MS == 1200
MAX_RECONNECT_DELAY_MS == 9000
historyLimit == 100

(***************************************************************************)
(* The state as a record.  micro is the queue of promise reactions the     *)
(* running macrotask has released and not yet run, and ret is what came    *)
(* of the macrotask: the error or result it handed to a caller outside the *)
(* model, an error no one caught ("Uncaught (in promise)"), or that it met *)
(* a response no request was waiting for.  Both                            *)
(* exist only inside one step, as does notice, the last notify() call.     *)
(***************************************************************************)
Cur ==
  [ws |-> ws, socks |-> socks, requestCounter |-> requestCounter,
   pending |-> pending, timers |-> timers, calls |-> calls, wire |-> wire,
   connectionStatus |-> connectionStatus,
   backendRunning |-> backendRunning, boundPort |-> boundPort,
   reconnectTimer |-> reconnectTimer,
   reconnectTimeouts |-> reconnectTimeouts,
   reconnectAttempts |-> reconnectAttempts,
   reconnectInFlight |-> reconnectInFlight,
   reconnectPaused |-> reconnectPaused,
   backendManaged |-> backendManaged, booting |-> booting,
   mounted |-> mounted, invokes |-> invokes,
   runtimeBlockingMessage |-> runtimeBlockingMessage,
   engineState |-> engineState,
   lastTranscript |-> lastTranscript,
   lastError |-> lastError,
   historyEntries |-> historyEntries,
   modelDownloadState |-> modelDownloadState,
   modelDownloadProgressPct |-> modelDownloadProgressPct,
   modelDownloadMessage |-> modelDownloadMessage,
   modelDownloadBytes |-> modelDownloadBytes,
   storageMigrationState |-> storageMigrationState,
   storageMigrationProgressPct |-> storageMigrationProgressPct,
   storageMigrationMessage |-> storageMigrationMessage,
   dictionaryEntries |-> dictionaryEntries,
   micro |-> <<>>, ret |-> "", notice |-> ""]

Set(r) ==
  /\ ws' = r.ws
  /\ socks' = r.socks
  /\ requestCounter' = r.requestCounter
  /\ pending' = r.pending
  /\ timers' = r.timers
  /\ calls' = r.calls
  /\ wire' = r.wire
  /\ connectionStatus' = r.connectionStatus
  /\ backendRunning' = r.backendRunning
  /\ boundPort' = r.boundPort
  /\ reconnectTimer' = r.reconnectTimer
  /\ reconnectTimeouts' = r.reconnectTimeouts
  /\ reconnectAttempts' = r.reconnectAttempts
  /\ reconnectInFlight' = r.reconnectInFlight
  /\ reconnectPaused' = r.reconnectPaused
  /\ backendManaged' = r.backendManaged
  /\ booting' = r.booting
  /\ mounted' = r.mounted
  /\ invokes' = r.invokes
  /\ runtimeBlockingMessage' = r.runtimeBlockingMessage
  /\ engineState' = r.engineState
  /\ lastTranscript' = r.lastTranscript
  /\ lastError' = r.lastError
  /\ historyEntries' = r.historyEntries
  /\ modelDownloadState' = r.modelDownloadState
  /\ modelDownloadProgressPct' = r.modelDownloadProgressPct
  /\ modelDownloadMessage' = r.modelDownloadMessage
  /\ modelDownloadBytes' = r.modelDownloadBytes
  /\ storageMigrationState' = r.storageMigrationState
  /\ storageMigrationProgressPct' = r.storageMigrationProgressPct
  /\ storageMigrationMessage' = r.storageMigrationMessage
  /\ dictionaryEntries' = r.dictionaryEntries

EmptyMap == [k \in {} |-> 0]


\* Map.delete
MapDelete(m, k) == [x \in DOMAIN m \ {k} |-> m[x]]

(***************************************************************************)
(* Values on the wire.  A request_id is null, a string or a number.  The   *)
(* string `req-${n}` is [t |-> "req", n |-> n], the JSON number n is       *)
(* [t |-> "num", n |-> n] and its decimal string is [t |-> "dec", n |-> n].*)
(***************************************************************************)
NullId == [t |-> "null", n |-> 0]
ReqKey(n) == [t |-> "req", n |-> n]
NumId(n) == [t |-> "num", n |-> n]

\* String(parsed.request_id)
StringOf(v) == IF v.t = "num" THEN [t |-> "dec", n |-> v.n] ELSE v

\* the truthiness test `&& parsed.request_id`
Truthy(v) == v # NullId /\ v # NumId(0)

\* isProtocolResponse: typeof message === "object" && type === "response"
isProtocolResponse(message) == message.type = "response"

NoFrame == [type |-> "none"]
NoError == [msg |-> "", arg |-> ""]
Err(msg, arg) == [msg |-> msg, arg |-> arg]

\* who awaits a promise: a caller outside the model, or an async function
\* of App.svelte suspended at step `step` of hydrateFromServer
\* stage is where an acquisition (onMount, handleStartBackend) stands and
\* managed is status.managed of startManagedBackend
Waiter(fn, hadRetries) ==
  [fn |-> fn, step |-> 0, hadRetries |-> hadRetries, stage |-> "",
   managed |-> FALSE]

ApiCaller == Waiter("api", FALSE)

(***************************************************************************)
(* Reconnection supervisor state (App.svelte).  The display strings        *)
(* (connectionDetail, runtimeIssue, notices) are not part of the model.    *)
(***************************************************************************)
\* clearTimeout on a handle whose timeout fired already does nothing
clearReconnectTimer(r) ==
  IF r.reconnectTimer = 0 THEN r
  ELSE [r EXCEPT !.reconnectTimeouts = MapDelete(@, r.reconnectTimer),
                 !.reconnectTimer = 0]

resetReconnectState(r) ==
  clearReconnectTimer([r EXCEPT !.reconnectAttempts = 0,
                                !.reconnectPaused = FALSE,
                                !.reconnectInFlight = FALSE])

Min(a, b) == IF a < b THEN a ELSE b

\* the handle setTimeout returns: one that no armed timeout has
FreeHandle(S) == CHOOSE h \in 1..(Cardinality(S) + 1) : h \notin S

\* scheduleReconnect counting the attempt to come as one that failed
scheduleReconnectAhead(r) ==
  IF r.reconnectTimer # 0 \/ r.reconnectInFlight \/ ~r.backendRunning
  THEN r
  ELSE LET h == FreeHandle(DOMAIN r.reconnectTimeouts)
       IN  [r EXCEPT !.reconnectTimer = h,
                     !.reconnectTimeouts = @ @@
                        (h :> Min(BASE_RECONNECT_DELAY_MS
                                    * 2 ^ (r.reconnectAttempts + 1),
                                  MAX_RECONNECT_DELAY_MS))]

scheduleReconnect(r) ==
  IF r.reconnectTimer # 0 \/ r.reconnectInFlight \/ ~r.backendRunning
  THEN r
  ELSE IF r.reconnectAttempts >= MAX_RECONNECT_ATTEMPTS
       THEN [r EXCEPT !.reconnectPaused = TRUE]
       ELSE LET delayMs ==
                  Min(BASE_RECONNECT_DELAY_MS * 2 ^ r.reconnectAttempts,
                      MAX_RECONNECT_DELAY_MS)
                h == FreeHandle(DOMAIN r.reconnectTimeouts)
            IN  [r EXCEPT !.reconnectTimer = h,
                          !.reconnectTimeouts = @ @@ (h :> delayMs)]

\* client.onStatus that leaves the supervisor alone on `connected`
onStatusNoReset(r, status) ==
  LET r1 == [r EXCEPT !.connectionStatus = status]
      r2 == IF status = "connected"
            THEN [r1 EXCEPT !.runtimeBlockingMessage = ""]
            ELSE r1
  IN  IF status = "disconnected" /\ r2.backendRunning
      THEN scheduleReconnect(r2)
      ELSE r2

\* client.onStatus, the callback emitStatus calls
onStatus(r, status) ==
  LET r1 == [r EXCEPT !.connectionStatus = status]
      r2 == IF status = "connected"
            THEN [resetReconnectState(r1) EXCEPT !.runtimeBlockingMessage = ""]
            ELSE r1
  IN  IF status = "disconnected" /\ r2.backendRunning
      THEN scheduleReconnect(r2)
      ELSE r2

emitStatus(r, status) == onStatus(r, status)

(***************************************************************************)
(* Promises of sendCommand.  calls[n] is the promise of the call that      *)
(* generated `req-${n}`: a promise keeps its first settlement, settles     *)
(* counts every call of its resolve or reject, and the first settlement    *)
(* queues the reaction of whoever awaits it.                               *)
(***************************************************************************)
NewCall(type, frame, waiter) ==
  [type |-> type, frame |-> frame, outcome |-> "pending",
   response |-> NoFrame, error |-> NoError, settles |-> 0, waiter |-> waiter]

Reaction(r, n, ok) ==
  IF r.calls[n].waiter.fn = "api" THEN r.micro
  ELSE Append(r.micro, [waiter |-> r.calls[n].waiter, ok |-> ok, call |-> n])

resolve(r, n, response) ==
  IF r.calls[n].outcome = "pending"
  THEN [r EXCEPT !.calls[n].outcome = "resolved",
                 !.calls[n].response = response,
                 !.calls[n].settles = @ + 1,
                 !.micro = Reaction(r, n, TRUE)]
  ELSE [r EXCEPT !.calls[n].settles = @ + 1]

reject(r, n, error) ==
  IF r.calls[n].outcome = "pending"
  THEN [r EXCEPT !.calls[n].outcome = "rejected",
                 !.calls[n].error = error,
                 !.calls[n].settles = @ + 1,
                 !.micro = Reaction(r, n, FALSE)]
  ELSE [r EXCEPT !.calls[n].settles = @ + 1]

clearTimeout(r, timeoutId) == [r EXCEPT !.timers = @ \ {timeoutId}]

RECURSIVE RejectEachKeepTimer(_, _, _)
\* the loop of disconnect() without its clearTimeout
RejectEachKeepTimer(r, keys, error) ==
  IF keys = <<>> THEN r
  ELSE RejectEachKeepTimer(reject(r, r.pending[Head(keys)].call, error),
                           Tail(keys), error)

RECURSIVE RejectEach(_, _, _)
\* the loop of disconnect() over pending.values()
RejectEach(r, keys, error) ==
  IF keys = <<>> THEN r
  ELSE LET p == r.pending[Head(keys)]
       IN  RejectEach(reject(clearTimeout(r, p.timeoutId), p.call, error),
                      Tail(keys), error)

RECURSIVE KeysInOrder(_)
\* Map iteration is in insertion order, and keys are inserted as the
\* counter grows
KeysInOrder(S) ==
  IF S = {} THEN <<>>
  ELSE LET k == CHOOSE x \in S : \A y \in S : x.n <= y.n
       IN  <<k>> \o KeysInOrder(S \ {k})

\* a socket on which no handler of the client can run any more is dropped
Reap(sk, s) == [x \in DOMAIN sk \ {s} |-> sk[x]]

\* disconnect() that reports only the closing of a socket it held
disconnectIfBound(r) ==
  LET r2 == RejectEach(r, KeysInOrder(DOMAIN r.pending),
                       Err("Socket disconnected", ""))
      r3 == [r2 EXCEPT !.pending = EmptyMap]
  IN  IF r.ws # 0
      THEN emitStatus([r3 EXCEPT !.socks = Reap(@, r.ws), !.ws = 0],
                      "disconnected")
      ELSE r3

\* disconnect(): close and forget the socket, reject what is pending
disconnect(r) ==
  LET r1 == IF r.ws # 0
            THEN [r EXCEPT !.socks = Reap(@, r.ws), !.ws = 0]
            ELSE r
      r2 == RejectEach(r1, KeysInOrder(DOMAIN r1.pending),
                       Err("Socket disconnected", ""))
      r3 == [r2 EXCEPT !.pending = EmptyMap]
  IN  emitStatus(r3, "disconnected")

\* isConnected(): this.ws?.readyState === WebSocket.OPEN
isConnected(r) == r.ws # 0 /\ r.socks[r.ws].readyState = "OPEN"

\* the guard of sendCommand without its readyState test
canSendIfBound(r) == r.ws # 0

\* the guard of sendCommand: it throws unless this holds
canSend(r) == r.ws # 0 /\ r.socks[r.ws].readyState = "OPEN"

\* the object literal { type, request_id: requestId, ...payload }
CommandFrame(type, requestId, payload) ==
  payload @@ [type |-> type, request_id |-> requestId]

\* sendCommand numbering a request by how many are pending
sendCommandOpenByPending(r, type, payload, waiter) ==
  LET n == r.requestCounter + 1
      requestId == ReqKey(Cardinality(DOMAIN r.pending) + 1)
      frame == CommandFrame(type, requestId, payload)
  IN  [r EXCEPT !.requestCounter = n,
                !.timers = @ \cup {n},
                !.calls = @ @@ (n :> NewCall(type, frame, waiter)),
                !.pending = (requestId :> [call |-> n, timeoutId |-> n]) @@ @,
                !.wire = Append(@, frame)]

\* sendCommand past its guard
sendCommandOpen(r, type, payload, waiter) ==
  LET n == r.requestCounter + 1
      requestId == ReqKey(n)
      frame == CommandFrame(type, requestId, payload)
  IN  [r EXCEPT !.requestCounter = n,
                !.timers = @ \cup {n},
                !.calls = @ @@ (n :> NewCall(type, frame, waiter)),
                !.pending = @ @@ (requestId :> [call |-> n, timeoutId |-> n]),
                !.wire = Append(@, frame)]

\* sendCommand: an async function, so its throw is a rejected promise,
\* which a caller outside the model sees as ret and an async function of
\* App.svelte as a reaction
sendCommand(r, type, payload, waiter) ==
  IF ~canSend(r)
  THEN IF waiter.fn = "api"
       THEN [r EXCEPT !.ret = "Socket is not connected"]
       ELSE [r EXCEPT !.micro = Append(@, [waiter |-> waiter, ok |-> FALSE,
                                           call |-> 0])]
  ELSE sendCommandOpen(r, type, payload, waiter)

\* the timer callback without its pending.delete
requestTimeoutKeepEntry(r, n) ==
  reject([r EXCEPT !.timers = @ \ {n}], n,
         Err("Request timed out: ", r.calls[n].type))

\* the callback of the deadline timer set by sendCommand call n
requestTimeout(r, n) ==
  LET r1 == [r EXCEPT !.timers = @ \ {n},
                      !.pending = MapDelete(@, ReqKey(n))]
  IN  reject(r1, n, Err("Request timed out: ", r.calls[n].type))

\* consumeResponse keeping the error of a failed response as lastError
consumeResponseKeepsError(r, response) ==
  IF response.ok /\ response.port # 0
  THEN [r EXCEPT !.boundPort = response.port]
  ELSE IF ~response.ok
  THEN [r EXCEPT !.lastError = response.error, !.notice = response.error]
  ELSE r

\* consumeResponse: server_info carries the bound port
consumeResponse(r, response) ==
  IF response.ok /\ response.port # 0
  THEN [r EXCEPT !.boundPort = response.port]
  ELSE r

(***************************************************************************)
(* consumeEvent (App.svelte).  A history entry is its id, 0 for null; an   *)
(* event says with has_pct whether its progress_pct is a number.           *)
(***************************************************************************)
NoEntry == 0

\* a byte counter that is null, and the three counters of the download
Null == 0 - 1
Bytes(total, done, remaining) ==
  [total |-> total, done |-> done, remaining |-> remaining]
NoBytes == Bytes(Null, Null, Null)

Max(a, b) == IF a > b THEN a ELSE b

\* q.slice(0, n)
Slice(q, n) == SubSeq(q, 1, Min(Len(q), n))

\* a cache that takes the new entry at its end and keeps its last ones
appendEntry(entries, entry) ==
  LET q == Append(entries, entry)
  IN  SubSeq(q, Max(1, Len(q) - historyLimit + 1), Len(q))

\* [entry, ...historyEntries].slice(0, historyLimit)
prependEntry(entries, entry) == Slice(<<entry>> \o entries, historyLimit)

\* a transcription event that files its entry whether or not there is one
onTranscriptionAlways(r, event) ==
  [r EXCEPT !.lastTranscript = event.text,
            !.historyEntries = prependEntry(@, event.entry)]

\* the branch of consumeEvent for a transcription event
onTranscription(r, event) ==
  LET r1 == [r EXCEPT !.lastTranscript = event.text]
  IN  IF event.entry # NoEntry
      THEN [r1 EXCEPT !.historyEntries = prependEntry(@, event.entry)]
      ELSE r1

\* progress stored as the event gives it when it is at most 100
clampPctAbove(pct) == Min(100, pct)

\* Math.max(0, Math.min(100, event.progress_pct))
clampPct(pct) == Max(0, Min(100, pct))

\* `${backend}:${name} - ${message}`
jobMessage(backend, name, message) ==
  backend \o ":" \o name \o " - " \o message

\* refreshCapabilities and refreshStorageStatus, up to their await
refreshCapabilities(r) ==
  sendCommand(r, "get_capabilities", EmptyMap,
              Waiter("refreshCapabilities", FALSE))

refreshStorageStatus(r) ==
  sendCommand(r, "get_storage_status", EmptyMap,
              Waiter("refreshStorageStatus", FALSE))

\* the branch of consumeEvent for model_download and
\* model_download_progress
onModelDownload(r, event) ==
  LET message == jobMessage(event.backend, event.name, event.message)
      r0 == [r EXCEPT !.modelDownloadMessage = message]
      r1 == [(IF event.has_pct
              THEN [r0 EXCEPT !.modelDownloadProgressPct =
                                clampPct(event.progress_pct)]
              ELSE r0)
             EXCEPT !.modelDownloadBytes =
                      Bytes(event.bytes_total, event.bytes_completed,
                            event.bytes_remaining)]
  IN  IF event.status \in {"starting", "resolving", "downloading",
                           "finalizing"}
      THEN [r1 EXCEPT !.modelDownloadState = "loading"]
      ELSE IF event.status = "completed"
      THEN refreshCapabilities([r1 EXCEPT !.modelDownloadState = "completed",
                                          !.notice = message])
      ELSE [r1 EXCEPT !.modelDownloadState = "error",
                      !.notice = message]

\* the branch of consumeEvent for storage_migration
onStorageMigration(r, event) ==
  LET r1 == [r EXCEPT !.storageMigrationMessage = event.message,
                      !.storageMigrationProgressPct = event.progress_pct]
  IN  IF event.status \in {"starting", "copying", "verifying", "cleanup"}
      THEN [r1 EXCEPT !.storageMigrationState = "running"]
      ELSE IF event.status = "completed"
      THEN refreshCapabilities(refreshStorageStatus(
             [r1 EXCEPT !.storageMigrationState = "completed",
                        !.notice = "Storage migration completed"]))
      ELSE [r1 EXCEPT !.storageMigrationState = "error",
                      !.notice = event.message]

consumeEvent(r, event) ==
  IF event.type = "state" THEN [r EXCEPT !.engineState = event.state]
  ELSE IF event.type = "transcription" THEN onTranscription(r, event)
  ELSE IF event.type = "history_appended"
  THEN [r EXCEPT !.historyEntries = prependEntry(@, event.entry)]
  ELSE IF event.type \in {"model_download_progress", "model_download"}
  THEN onModelDownload(r, event)
  ELSE IF event.type = "storage_migration" THEN onStorageMigration(r, event)
  ELSE IF event.type = "storage_updated" THEN refreshStorageStatus(r)
  ELSE IF event.type = "dictionary_updated"
  THEN [r EXCEPT !.dictionaryEntries =
                   (event.key :> event.value) @@ @]
  ELSE IF event.type = "dictionary_deleted"
  THEN [r EXCEPT !.dictionaryEntries = MapDelete(@, event.key)]
  ELSE IF event.type = "error"
  THEN [r EXCEPT !.lastError = event.message, !.notice = event.message]
  ELSE IF event.type = "shutting_down"
  THEN [r EXCEPT !.notice = "Backend is shutting down"]
  ELSE r

\* client.onMessage
onMessage(r, message) ==
  IF isProtocolResponse(message) THEN consumeResponse(r, message)
  ELSE consumeEvent(r, message)

\* handleMessage without its clearTimeout
settlePendingKeepTimer(r, parsed) ==
  LET requestKey == StringOf(parsed.request_id)
  IN  IF requestKey \in DOMAIN r.pending
      THEN LET p == r.pending[requestKey]
               r1 == [r EXCEPT !.pending = MapDelete(@, requestKey)]
           IN  IF parsed.ok
               THEN resolve(r1, p.call, parsed)
               ELSE reject(r1, p.call,
                           Err(IF parsed.error = "" THEN "Unknown protocol error"
                               ELSE parsed.error, ""))
      ELSE r

\* handleMessage settling the oldest pending request whatever id came
settlePendingOldest(r, parsed) ==
  IF DOMAIN r.pending # {}
  THEN LET requestKey == Head(KeysInOrder(DOMAIN r.pending))
           p == r.pending[requestKey]
           r1 == [clearTimeout(r, p.timeoutId)
                    EXCEPT !.pending = MapDelete(@, requestKey)]
       IN  IF parsed.ok THEN resolve(r1, p.call, parsed)
           ELSE reject(r1, p.call, Err("Unknown protocol error", ""))
  ELSE r

\* handleMessage rejecting the oldest pending request when the id of a
\* response matches none
settlePendingOrOldest(r, parsed) ==
  LET requestKey == StringOf(parsed.request_id)
      key == IF requestKey \in DOMAIN r.pending \/ DOMAIN r.pending = {}
             THEN requestKey
             ELSE Head(KeysInOrder(DOMAIN r.pending))
  IN  IF key \in DOMAIN r.pending
      THEN LET p == r.pending[key]
               r1 == [clearTimeout(r, p.timeoutId)
                        EXCEPT !.pending = MapDelete(@, key)]
           IN  IF parsed.ok /\ key = requestKey
               THEN resolve(r1, p.call, parsed)
               ELSE reject(r1, p.call, Err("Unknown protocol error", ""))
      ELSE r

\* the response branch of handleMessage
settlePending(r, parsed) ==
  LET requestKey == StringOf(parsed.request_id)
  IN  IF requestKey \in DOMAIN r.pending
      THEN LET p == r.pending[requestKey]
               r1 == [clearTimeout(r, p.timeoutId)
                        EXCEPT !.pending = MapDelete(@, requestKey)]
           IN  IF parsed.ok
               THEN resolve(r1, p.call, parsed)
               ELSE reject(r1, p.call,
                           Err(IF parsed.error = "" THEN "Unknown protocol error"
                               ELSE parsed.error, ""))
      ELSE r

\* handleMessage tearing the session down on a frame it cannot decode
handleMessageStrict(r, raw) ==
  IF ~raw.json
  THEN emitStatus(disconnect(r), "error")
  ELSE LET parsed == raw.value
           r1 == IF isProtocolResponse(parsed) /\ Truthy(parsed.request_id)
                 THEN settlePending(r, parsed)
                 ELSE r
       IN  onMessage(r1, parsed)

\* handleMessage; ret notes a response that found no entry in the pending
\* map as the handler began
handleMessage(r, raw) ==
  IF ~raw.json
  THEN emitStatus(r, "error")
  ELSE LET parsed == raw.value
           r1 == IF isProtocolResponse(parsed) /\ Truthy(parsed.request_id)
                 THEN settlePending(r, parsed)
                 ELSE r
           r2 == IF /\ isProtocolResponse(parsed)
                    /\ StringOf(parsed.request_id) \notin DOMAIN r.pending
                 THEN [r1 EXCEPT !.ret = "unmatched response"]
                 ELSE r1
       IN  onMessage(r2, parsed)

(***************************************************************************)
(* Port selection (App.svelte).                                            *)
(***************************************************************************)
baseRange == [index \in 1..PORT_WINDOW |-> DEFAULT_PORT + (index - 1)]

Includes(q, x) == \E i \in 1..Len(q) : q[i] = x

\* orderedPorts without its deduplication
orderedPortsAll(seed) == <<seed>> \o baseRange

orderedPorts(seed) ==
  IF Includes(baseRange, seed)
  THEN <<seed>> \o SelectSeq(baseRange, LAMBDA port : port # seed)
  ELSE <<seed>> \o baseRange

(***************************************************************************)
(* connect() and tryOpen().  A socket is in socks from `new WebSocket`     *)
(* until no handler of the client can run on it again: a probe leaves when *)
(* fail() has settled it (fail closes it, and `settled` makes every later  *)
(* onopen, onerror, onclose and timer callback return at once), a bound    *)
(* socket leaves when disconnect() has nulled its handlers and closed it,  *)
(* or when its close event has run.  handlers = "probe" is onopen/onerror/ *)
(* onclose as tryOpen sets them, with `settled` false and the 1000 ms      *)
(* timer armed; handlers = "client" is onmessage/onclose/onerror as onopen *)
(* sets them.  A probe carries the connect() call that awaits it: its      *)
(* candidate list, the index of the loop, the ports it has passed to       *)
(* tryOpen so far, and its caller.                                         *)
(***************************************************************************)
FreeSock(r) ==
  CHOOSE s \in 1..(Cardinality(DOMAIN r.socks) + 1) :
    s \notin DOMAIN r.socks /\ \A t \in 1..(s - 1) : t \in DOMAIN r.socks

\* tryOpen up to its `new Promise`: the socket, its handlers and its timer
tryOpen(r, call, port) ==
  [r EXCEPT !.socks = @ @@ (FreeSock(r) :>
                [port |-> port, readyState |-> "CONNECTING",
                 handlers |-> "probe", cands |-> call.cands, idx |-> call.idx,
                 probed |-> Append(call.probed, port), caller |-> call.caller])]

HydrateCommands ==
  <<"ping", "server_info", "get_full_config", "get_capabilities",
    "get_storage_status", "get_history", "get_dictionary">>

HydratePayload(type) ==
  IF type = "get_history" THEN [limit |-> 100, offset |-> 0] ELSE EmptyMap

\* invoke(cmd) of @tauri-apps/api: the command goes to the host, and the
\* async function w awaits the reply
invoke(r, cmd, w) ==
  [r EXCEPT !.invokes = Append(@, [cmd |-> cmd, waiter |-> w])]

\* startManagedBackend(preferredPort) up to the await in runBackendPreflight
startManagedBackend(r, w) ==
  invoke(r, "backend_preflight", [w EXCEPT !.stage = "preflight"])

\* the finally block of attemptReconnect and of onMount
taskFinally(r, w) ==
  IF w.fn = "attemptReconnect" THEN [r EXCEPT !.reconnectInFlight = FALSE]
  ELSE IF w.fn = "onMount" THEN [r EXCEPT !.booting = FALSE]
  ELSE r

\* the catch block of handleStartBackend and of onMount
acquireCatch(r, w) ==
  IF w.fn = "handleStartBackend"
  THEN [r EXCEPT !.backendRunning = FALSE,
                 !.notice = "Failed to start backend"]
  ELSE taskFinally([r EXCEPT !.notice = "Desktop startup failed"], w)

\* connectExistingBackend setting backendManaged to what the host said last
connectedExistingKeep(r, w) ==
  taskFinally([r EXCEPT !.runtimeBlockingMessage =
                          IF w.fn = "handleStartBackend" THEN "" ELSE @,
                        !.notice = "Connected to existing backend"], w)

\* connectExistingBackend past its await, and its caller past its own
connectedExisting(r, w) ==
  taskFinally([r EXCEPT !.backendManaged = FALSE,
                        !.runtimeBlockingMessage =
                          IF w.fn = "handleStartBackend" THEN "" ELSE @,
                        !.notice = "Connected to existing backend"], w)

\* startManagedBackend past connectToBackend, and its caller past its await
connectedManaged(r, w) ==
  taskFinally([r EXCEPT !.backendManaged = w.managed,
                        !.notice = "Started and connected to managed backend"],
              w)

\* connectToBackend returned to the async function w
taskThen(r, w) ==
  IF w.stage = "attach" THEN connectedExisting(r, w)
  ELSE IF w.stage = "spawn" THEN connectedManaged(r, w)
  ELSE taskFinally(r, w)

\* connectToBackend threw to the async function w: its catch block
taskCatch(r, w) ==
  IF w.fn = "attemptReconnect"
  THEN taskFinally(
         scheduleReconnect([r EXCEPT !.reconnectAttempts = @ + 1,
                                     !.connectionStatus = "error"]), w)
  ELSE IF w.fn = "handleReconnect"
       THEN LET r1 == [r EXCEPT !.notice = "Reconnect failed"]
            IN  IF r1.backendRunning THEN scheduleReconnect(r1) ELSE r1
  ELSE IF w.stage = "attach" THEN startManagedBackend(r, w)
  ELSE IF w.stage = "spawn" THEN acquireCatch(r, w)
  ELSE r

\* hydrateFromServer from its k-th command on, up to its next await
hydrateFrom(r, w, k) ==
  IF k > Len(HydrateCommands) THEN taskThen(r, w)
  ELSE sendCommand(r, HydrateCommands[k], HydratePayload(HydrateCommands[k]),
                   [w EXCEPT !.step = k])

\* connect() returning the port to its caller; for an async function of
\* App.svelte that is connectToBackend past `await client.connect`
connectResolved(r, caller, port) ==
  IF caller.fn = "api" THEN [r EXCEPT !.ret = "resolved"]
  ELSE hydrateFrom([r EXCEPT !.ret = "resolved", !.boundPort = port,
                             !.backendRunning = TRUE],
                   caller, 1)

\* connect() throwing "Unable to connect to Keyvox backend" to its caller
connectRejected(r, caller) ==
  IF caller.fn = "api"
  THEN [r EXCEPT !.ret = "Unable to connect to Keyvox backend"]
  ELSE taskCatch([r EXCEPT !.ret = "Unable to connect to Keyvox backend"],
                 caller)

\* the loop of connect() from candidate i on, up to its next await
connectFrom(r, call, i) ==
  IF i <= Len(call.cands)
  THEN tryOpen(r, [call EXCEPT !.idx = i], call.cands[i])
  ELSE connectRejected(emitStatus(r, "error"), call.caller)

\* connect(portCandidates), up to its first await
connect(r, portCandidates, caller) ==
  LET r1 == disconnect(r)
      r2 == emitStatus(r1, "connecting")
  IN  connectFrom(r2, [cands |-> portCandidates, idx |-> 0, probed |-> <<>>,
                       caller |-> caller], 1)

\* fail() of tryOpen on an unsettled probe, and connect() resuming on false
probeFail(r, s) ==
  connectFrom([r EXCEPT !.socks = Reap(@, s)], r.socks[s], r.socks[s].idx + 1)

\* socket.onopen of tryOpen, and connect() resuming on true
probeOpen(r, s) ==
  LET r1 == [r EXCEPT !.ws = s,
                      !.socks[s] = [port |-> @.port, readyState |-> "OPEN",
                                    handlers |-> "client", cands |-> <<>>,
                                    idx |-> 0, probed |-> <<>>,
                                    caller |-> ApiCaller]]
      r2 == emitStatus(r1, "connected")
  IN  connectResolved(r2, r.socks[s].caller, r.socks[s].port)

\* socket.onclose forgetting what is pending, deadlines included, without
\* settling it
socketOnCloseForgets(r, s) ==
  emitStatus([r EXCEPT !.ws = 0, !.socks = Reap(@, s), !.timers = {},
                       !.pending = EmptyMap], "disconnected")

\* socket.onclose as onopen sets it
socketOnClose(r, s) ==
  emitStatus([r EXCEPT !.ws = 0, !.socks = Reap(@, s)], "disconnected")

\* socket.onerror as onopen sets it
socketOnError(r, s) == emitStatus(r, "error")

\* the refreshers with a refreshCapabilities that takes the download for
\* idle whenever the backend reports none in progress
applyResultIdleAlways(r, type, result) ==
  IF type = "get_capabilities" /\ result.kind = "capabilities"
  THEN (IF result.active
        THEN [r EXCEPT !.modelDownloadState = "loading",
                       !.modelDownloadMessage =
                         jobMessage(result.backend, result.name,
                                    "download in progress")]
        ELSE [r EXCEPT !.modelDownloadState = "idle"])
  ELSE IF type = "get_storage_status" /\ result.kind = "storage"
  THEN (IF result.active THEN [r EXCEPT !.storageMigrationState = "running"]
        ELSE r)
  ELSE IF type = "get_history" /\ result.kind = "entries"
  THEN [r EXCEPT !.historyEntries = result.entries]
  ELSE IF type = "get_dictionary" /\ result.kind = "dictionary"
  THEN [r EXCEPT !.dictionaryEntries = result.entries]
  ELSE r

\* what refreshCapabilities, refreshStorageStatus, refreshHistory and
\* refreshDictionary do with response.result past their await
applyResult(r, type, result) ==
  IF type = "get_capabilities" /\ result.kind = "capabilities"
  THEN (IF result.active
        THEN [r EXCEPT !.modelDownloadState = "loading",
                       !.modelDownloadMessage =
                         jobMessage(result.backend, result.name,
                                    "download in progress")]
        ELSE IF r.modelDownloadState = "loading"
        THEN [r EXCEPT !.modelDownloadState = "idle"]
        ELSE r)
  ELSE IF type = "get_storage_status" /\ result.kind = "storage"
  THEN (IF result.active THEN [r EXCEPT !.storageMigrationState = "running"]
        ELSE r)
  ELSE IF type = "get_history" /\ result.kind = "entries"
  THEN [r EXCEPT !.historyEntries = result.entries]
  ELSE IF type = "get_dictionary" /\ result.kind = "dictionary"
  THEN [r EXCEPT !.dictionaryEntries = result.entries]
  ELSE r

\* refreshHistory, up to its await
refreshHistory(r) ==
  sendCommand(r, "get_history", [limit |-> historyLimit, offset |-> 0],
              Waiter("refreshHistory", FALSE))

\* the model the page has selected: modelBackend and modelName
modelBackend == "auto"
modelName == "large-v3-turbo"

\* downloadSelectedModel, up to its await; requirement is what the page
\* knows of the selected model: "none", "fits" or "short" of space
downloadSelectedModel(r, requirement) ==
  IF requirement = "short"
  THEN [r EXCEPT !.notice = "Not enough free space for model download"]
  ELSE sendCommand(
         [r EXCEPT !.modelDownloadState = "loading",
                   !.modelDownloadProgressPct = 0,
                   !.modelDownloadBytes =
                     IF requirement = "fits" THEN Bytes(100, 0, 100)
                     ELSE NoBytes,
                   !.modelDownloadMessage =
                     jobMessage(modelBackend, modelName, "queued")],
         "download_model", [backend |-> modelBackend, name |-> modelName],
         Waiter("downloadSelectedModel", FALSE))

\* downloadSelectedModel past an await: of its download_model request at
\* step 0, of the refreshCapabilities it awaits in its try block at step 1
downloadSelectedModelThen(r, m) ==
  IF ~m.ok
  THEN [r EXCEPT !.modelDownloadState = "error",
                 !.modelDownloadMessage =
                   jobMessage(modelBackend, modelName, "download failed"),
                 !.notice = "Failed to queue model download"]
  ELSE LET result == r.calls[m.call].response.result
       IN  IF m.waiter.step = 1
           THEN applyResult(r, "get_capabilities", result)
           ELSE IF result.kind = "download" /\ result.already_downloaded
           THEN sendCommand(
                  [r EXCEPT !.modelDownloadState = "completed",
                            !.modelDownloadMessage =
                              jobMessage(modelBackend, modelName,
                                         "already downloaded"),
                            !.notice = "Model already downloaded locally."],
                  "get_capabilities", EmptyMap, [m.waiter EXCEPT !.step = 1])
           ELSE [r EXCEPT !.notice = "Model download started in background."]

\* String(error) of the error a sendCommand was rejected with
errorText(r, m) ==
  LET error == IF m.call = 0 THEN Err("Socket is not connected", "")
               ELSE r.calls[m.call].error
  IN  "Error: " \o error.msg \o error.arg

\* applyStorageRoot, up to its await; the field holds a root or is empty
applyStorageRoot(r, nextRoot) ==
  IF nextRoot = ""
  THEN [r EXCEPT !.notice = "Storage root cannot be empty."]
  ELSE sendCommand([r EXCEPT !.storageMigrationState = "running",
                             !.storageMigrationProgressPct = 0,
                             !.storageMigrationMessage =
                               "Preparing migration"],
                   "set_storage_root", [storage_root |-> nextRoot],
                   Waiter("applyStorageRoot", FALSE))

\* applyStorageRoot past its await
applyStorageRootThen(r, m) ==
  IF m.ok THEN [r EXCEPT !.notice = "Storage migration started."]
  ELSE [r EXCEPT !.storageMigrationState = "error",
                 !.storageMigrationMessage = errorText(r, m),
                 !.notice = "Storage migration failed to start"]

\* the functions consumeEvent calls with `void` and the Refresh History
\* click: no one awaits them, so a rejection of their sendCommand is
\* caught by no one
Refreshers == {"refreshCapabilities", "refreshStorageStatus", "refreshHistory"}

\* a reaction of an async function of App.svelte awaiting a sendCommand
react(r, m) ==
  IF m.waiter.fn = "handleStopBackend"
  THEN (IF m.ok THEN invoke(r, "stop_backend", m.waiter)
        ELSE [r EXCEPT !.notice = "Failed to stop backend"])
  ELSE IF m.waiter.fn = "downloadSelectedModel"
  THEN downloadSelectedModelThen(r, m)
  ELSE IF m.waiter.fn = "applyStorageRoot"
  THEN applyStorageRootThen(r, m)
  ELSE IF m.waiter.fn \in Refreshers
  THEN (IF m.ok
        THEN applyResult(r, r.calls[m.call].type, r.calls[m.call].response.result)
        ELSE [r EXCEPT !.ret = "Uncaught (in promise)"])
  ELSE IF m.ok
  THEN hydrateFrom(applyResult(r, r.calls[m.call].type,
                               r.calls[m.call].response.result),
                   m.waiter, m.waiter.step + 1)
  ELSE taskCatch(r, m.waiter)

RECURSIVE Drain(_)
\* the microtask queue runs empty before the macrotask ends
Drain(r) ==
  IF r.micro = <<>> THEN r
  ELSE Drain(react([r EXCEPT !.micro = Tail(@)], Head(r.micro)))

\* attemptReconnect, up to its first await
attemptReconnect(r) ==
  LET r1 == clearReconnectTimer(r)
  IN  IF ~r1.backendRunning \/ isConnected(r1) \/ r1.reconnectInFlight
      THEN r1
      ELSE connect([r1 EXCEPT !.reconnectInFlight = TRUE],
                   orderedPorts(IF r1.boundPort # 0 THEN r1.boundPort
                                ELSE DEFAULT_PORT),
                   Waiter("attemptReconnect", r1.reconnectAttempts > 0))

\* handleReconnect, up to its first await
handleReconnect(r) ==
  LET r1 == resetReconnectState(r)
  IN  connect(r1,
              orderedPorts(IF r1.boundPort # 0 THEN r1.boundPort
                           ELSE DEFAULT_PORT),
              Waiter("handleReconnect", FALSE))

(***************************************************************************)
(* Backend lifecycle (App.svelte).  preferredPort stays DEFAULT_PORT: the  *)
(* user does not edit the port field.                                      *)
(***************************************************************************)
\* boundPort ?? preferredPort
SeedOf(port) == IF port # 0 THEN port ELSE DEFAULT_PORT

connectExistingBackend(r, seed, w) ==
  connect(r, orderedPorts(seed), [w EXCEPT !.stage = "attach"])

\* handleStartBackend, up to its first await
handleStartBackend(r) ==
  LET r1 == resetReconnectState(r)
  IN  IF isConnected(r1)
      THEN [r1 EXCEPT !.notice = "Already connected to backend."]
      ELSE connectExistingBackend(r1, SeedOf(r1.boundPort),
                                  Waiter("handleStartBackend", FALSE))

\* the onMount callback, up to its first await
onMount(r) ==
  invoke(resetReconnectState([r EXCEPT !.booting = TRUE,
                                       !.mounted = "mounted"]),
         "backend_status", Waiter("onMount", FALSE))

\* handleStopBackend, up to its first await
handleStopBackend(r) ==
  IF ~r.backendManaged
  THEN [r EXCEPT !.notice = "Connected backend is unmanaged."]
  ELSE LET r1 == [resetReconnectState(r) EXCEPT !.backendRunning = FALSE]
           w == Waiter("handleStopBackend", FALSE)
       IN  IF isConnected(r1) THEN sendCommand(r1, "shutdown", EmptyMap, w)
           ELSE invoke(r1, "stop_backend", w)

\* stopManagedBackendOnExit asking the host whatever the ownership
stopManagedBackendOnExitAlways(r) ==
  invoke([resetReconnectState(r) EXCEPT !.backendRunning = FALSE],
         "stop_backend", Waiter("stopManagedBackendOnExit", FALSE))

\* stopManagedBackendOnExit, up to its await
stopManagedBackendOnExit(r) ==
  IF ~r.backendManaged THEN r
  ELSE invoke([resetReconnectState(r) EXCEPT !.backendRunning = FALSE],
              "stop_backend", Waiter("stopManagedBackendOnExit", FALSE))

\* the onDestroy callback
onDestroy(r) ==
  disconnect(stopManagedBackendOnExit(
               resetReconnectState([r EXCEPT !.mounted = "destroyed"])))

\* runBackendPreflight asking for the spawn whatever the report says
runBackendPreflightLax(r, w, report) ==
  invoke([r EXCEPT !.runtimeBlockingMessage = ""], "start_backend",
         [w EXCEPT !.stage = "start"])

\* runBackendPreflight past its await: it throws to the catch of the
\* acquisition, or returns to startManagedBackend, which calls startBackend
runBackendPreflight(r, w, report) ==
  IF ~report.ok
  THEN acquireCatch([r EXCEPT !.runtimeBlockingMessage = report.message], w)
  ELSE invoke([r EXCEPT !.runtimeBlockingMessage = ""], "start_backend",
              [w EXCEPT !.stage = "start"])

\* the catch of stopManagedBackendOnExit letting the error go
exitStopFailedLoud(r) == [r EXCEPT !.ret = "Uncaught (in promise)"]

\* the catch of stopManagedBackendOnExit: best-effort, nothing is done
exitStopFailed(r) == r

\* the reply of the host to the i-th command in flight reaches the
\* function that awaits it: a BackendStatus, a BackendPreflight, or the
\* error invoke throws
hostReplied(r, i, reply) ==
  LET cmd == r.invokes[i].cmd
      w == r.invokes[i].waiter
      r1 == [r EXCEPT !.invokes =
               SubSeq(@, 1, i - 1) \o SubSeq(@, i + 1, Len(@))]
      r2 == [r1 EXCEPT !.backendRunning = reply.running,
                       !.backendManaged = reply.managed,
                       !.boundPort = reply.port]
  IN  IF w.fn = "stopManagedBackendOnExit"
      THEN (IF reply.threw THEN exitStopFailed(r1) ELSE r1)
      ELSE IF w.fn = "handleStopBackend"
      THEN (IF reply.threw
            THEN [r1 EXCEPT !.notice = "Failed to stop backend"]
            ELSE [disconnect(r2) EXCEPT !.notice = "Managed backend stopped"])
      ELSE IF reply.threw THEN acquireCatch(r1, w)
      ELSE IF cmd = "backend_status"
      THEN connectExistingBackend(
             [r1 EXCEPT !.backendManaged = reply.managed,
                        !.boundPort = reply.port],
             SeedOf(reply.port), w)
      ELSE IF cmd = "backend_preflight"
      THEN runBackendPreflight(r1, w, reply)
      ELSE connect(r2, orderedPorts(SeedOf(reply.port)),
                   [w EXCEPT !.stage = "spawn", !.managed = reply.managed])

(***************************************************************************)
(* Inputs.                                                                 *)
(***************************************************************************)
\* a command and its payload, as the callers in App.svelte pair them
Commands ==
  {[type |-> "ping", payload |-> EmptyMap],
   [type |-> "get_history", payload |-> [limit |-> 100, offset |-> 0]]}

\* ids a response may carry: none, a number, and every id the client can
\* generate within the bound (issued, settled or not yet issued)
RequestIds(maxReq) ==
  {NullId, NumId(1)} \cup {ReqKey(n) : n \in 1..maxReq}

\* response.result besides its port: absent, or what get_history,
\* get_capabilities, get_storage_status and get_dictionary answer
NoResult == [kind |-> "none"]
Entries(entries) == [kind |-> "entries", entries |-> entries]
Capabilities(active) ==
  [kind |-> "capabilities", active |-> active, backend |-> "faster-whisper",
   name |-> "base"]
StorageStatus(active) == [kind |-> "storage", active |-> active]
Dictionary(entries) == [kind |-> "dictionary", entries |-> entries]
Downloaded(already) == [kind |-> "download", already_downloaded |-> already]

\* port is result.port of a server_info response, 0 when there is none
Response(id, ok, error, port) ==
  [type |-> "response", request_id |-> id, ok |-> ok, error |-> error,
   port |-> port, result |-> NoResult]

WithResult(response, result) == [response EXCEPT !.result = result]

ResponseFrames(maxReq) ==
  {Response(id, TRUE, "", 0) : id \in RequestIds(maxReq)}
  \cup {Response(id, FALSE, "server error", 0) : id \in RequestIds(maxReq)}

\* ServerEvent values
StateEvent(state) == [type |-> "state", state |-> state]

Transcription(text, entry) ==
  [type |-> "transcription", text |-> text, entry |-> entry]

HistoryAppended(entry) == [type |-> "history_appended", entry |-> entry]

ErrorEvent(message) == [type |-> "error", message |-> message]

\* an event with a number for its progress has numbers for its byte
\* counters, one without it has none
ModelDownload(status, has_pct, progress_pct) ==
  [type |-> "model_download", status |-> status,
   backend |-> "faster-whisper", name |-> "base",
   message |-> "model download", has_pct |-> has_pct,
   progress_pct |-> progress_pct,
   bytes_total |-> IF has_pct THEN 100 ELSE Null,
   bytes_completed |-> IF has_pct THEN 40 ELSE Null,
   bytes_remaining |-> IF has_pct THEN 60 ELSE Null]

StorageMigration(status, progress_pct) ==
  [type |-> "storage_migration", status |-> status,
   message |-> "storage migration", progress_pct |-> progress_pct]

DictionaryUpdated(key, value) ==
  [type |-> "dictionary_updated", key |-> key, value |-> value]

DictionaryDeleted(key) == [type |-> "dictionary_deleted", key |-> key]

EventFrames == {StateEvent("idle")}

BadJson == [json |-> FALSE]
Json(f) == [json |-> TRUE, value |-> f]

ClientFrames ==
  {BadJson} \cup {Json(f) : f \in ResponseFrames(MaxReq) \cup EventFrames}

\* notice is the text of the last notify() call of the task, "" for none
Op(op, a, ret) == [op |-> op, a |-> a, ret |-> ret, notice |-> ""]

\* the bounds of a specification: requests registered, sockets alive, and
\* the ports a backend may be listening on
Lim(req, sockets, ports) == [req |-> req, sockets |-> sockets, ports |-> ports]
ClientLim == Lim(MaxReq, MaxSockets, {DEFAULT_PORT})

SocketIds(lim) == 1..lim.sockets
CallIds(lim) == 1..lim.req
TimeoutIds == 1..MaxTimeouts

\* one macrotask: the handler, then the microtasks it released
Step(r, op, a, lim) ==
  LET d == Drain(r)
  IN  /\ Cardinality(DOMAIN d.socks) <= lim.sockets
      /\ d.requestCounter <= lim.req
      /\ Len(d.invokes) <= MaxInvokes
      /\ Set(d)
      /\ lastOp' = [Op(op, a, d.ret) EXCEPT !.notice = d.notice]
      /\ UNCHANGED <<seedPort, candidates>>

\* the page's own state as its declarations leave it
PageInit ==
  /\ runtimeBlockingMessage = ""
  /\ engineState = "idle"
  /\ lastTranscript = ""
  /\ lastError = ""
  /\ historyEntries = <<>>
  /\ modelDownloadState = "idle"
  /\ modelDownloadProgressPct = 0
  /\ modelDownloadMessage = ""
  /\ modelDownloadBytes = NoBytes
  /\ storageMigrationState = "idle"
  /\ storageMigrationProgressPct = 0
  /\ storageMigrationMessage = ""
  /\ dictionaryEntries = EmptyMap

Init ==
  /\ ws = 0
  /\ socks = EmptyMap
  /\ requestCounter = 0
  /\ pending = EmptyMap
  /\ timers = {}
  /\ calls = EmptyMap
  /\ wire = <<>>
  /\ connectionStatus = "disconnected"
  /\ backendRunning = FALSE
  /\ boundPort = 0
  /\ reconnectTimer = 0
  /\ reconnectTimeouts = EmptyMap
  /\ reconnectAttempts = 0
  /\ reconnectInFlight = FALSE
  /\ reconnectPaused = FALSE
  /\ backendManaged = FALSE
  /\ booting = FALSE
  /\ mounted = "mounted"
  /\ invokes = <<>>
  /\ PageInit
  /\ lastOp = Op("init", 0, "")
  /\ seedPort = DEFAULT_PORT
  /\ candidates = <<>>

(***************************************************************************)
(* Calls of the public methods of KeyvoxWsClient by any caller.  lastOp.a  *)
(* counts the disconnect() calls made in a row, up to two.                 *)
(***************************************************************************)
Connect(cands) ==
  /\ cands \in Seq(Int)
  /\ Step(connect(Cur, cands, ApiCaller), "connect", 0, ClientLim)

Disconnect ==
  /\ lastOp.a \in 0..2
  /\ Step(disconnect(Cur), "disconnect",
          IF lastOp.op = "disconnect" THEN 2 ELSE 1, ClientLim)

SendCommand(type, payload) ==
  /\ type \in STRING
  /\ Step(sendCommand(Cur, type, payload, ApiCaller), "sendCommand", 0, ClientLim)

(***************************************************************************)
(* Timers and socket events.                                               *)
(***************************************************************************)
RequestTimeout(n, lim) ==
  /\ n \in timers
  /\ Step(requestTimeout(Cur, n), "event", 0, lim)

SocketMessage(s, raw, lim) ==
  /\ s \in DOMAIN socks
  /\ socks[s].handlers = "client"
  /\ socks[s].readyState = "OPEN"
  /\ Step(handleMessage(Cur, raw), "event", 0, lim)

\* the closing handshake starts: readyState becomes CLOSING, no event yet
SocketClosing(s, lim) ==
  /\ s \in DOMAIN socks
  /\ socks[s].handlers = "client"
  /\ socks[s].readyState = "OPEN"
  /\ Step([Cur EXCEPT !.socks[s].readyState = "CLOSING"], "event", 0, lim)

\* the close event of a bound socket
SocketClose(s, lim) ==
  /\ s \in DOMAIN socks
  /\ socks[s].handlers = "client"
  /\ Step(socketOnClose(Cur, s), "event", 0, lim)

\* a bound socket fails: the error event, then the close event, in one task
SocketError(s, lim) ==
  /\ s \in DOMAIN socks
  /\ socks[s].handlers = "client"
  /\ Step(socketOnClose(socketOnError(Cur, s), s), "event", 0, lim)

\* a backend listening on the port accepts the probe
ProbeOpen(s, lim) ==
  /\ s \in DOMAIN socks
  /\ socks[s].handlers = "probe"
  /\ socks[s].port \in lim.ports
  /\ Step(probeOpen(Cur, s), "event", 0, lim)

\* the probe is refused: its error or close event runs fail()
ProbeRefused(s, lim) ==
  /\ s \in DOMAIN socks
  /\ socks[s].handlers = "probe"
  /\ Step(probeFail(Cur, s), "event", 0, lim)

\* the 1000 ms timer of tryOpen runs fail()
ProbeTimeout(s, lim) ==
  /\ s \in DOMAIN socks
  /\ socks[s].handlers = "probe"
  /\ Step(probeFail(Cur, s), "event", 0, lim)

(***************************************************************************)
(* The protocol client under any caller: commands and their correlation.   *)
(***************************************************************************)
ClientNext ==
  \/ \E cands \in {<<>>, <<DEFAULT_PORT>>} : Connect(cands)
  \/ Disconnect
  \/ \E c \in Commands : SendCommand(c.type, c.payload)
  \/ \E n \in CallIds(ClientLim) : RequestTimeout(n, ClientLim)
  \/ \E s \in SocketIds(ClientLim), raw \in ClientFrames :
        SocketMessage(s, raw, ClientLim)
  \/ \E s \in SocketIds(ClientLim) : SocketClosing(s, ClientLim)
  \/ \E s \in SocketIds(ClientLim) : SocketClose(s, ClientLim)
  \/ \E s \in SocketIds(ClientLim) : SocketError(s, ClientLim)
  \/ \E s \in SocketIds(ClientLim) : ProbeOpen(s, ClientLim)
  \/ \E s \in SocketIds(ClientLim) : ProbeRefused(s, ClientLim)
  \/ \E s \in SocketIds(ClientLim) : ProbeTimeout(s, ClientLim)

SpecClient == Init /\ [][ClientNext]_vars

(***************************************************************************)
(* The client in an environment where a deadline timer that is armed fires *)
(* unless it is cleared first (the event loop runs setTimeout callbacks),  *)
(* and where nothing else is promised: the backend may answer a request,   *)
(* with ok or with an error, or never, and a socket may close at any time. *)
(***************************************************************************)
SettleLim == Lim(MaxSettleReq, MaxSockets, {DEFAULT_PORT})

SettleFrames ==
  {Json(Response(ReqKey(n), ok, "", 0)) :
     n \in CallIds(SettleLim), ok \in BOOLEAN}

SettleNext ==
  \/ \E cands \in {<<DEFAULT_PORT>>} : Connect(cands)
  \/ Disconnect
  \/ \E c \in Commands :
        requestCounter < MaxSettleReq /\ SendCommand(c.type, c.payload)
  \/ \E n \in CallIds(SettleLim) : RequestTimeout(n, SettleLim)
  \/ \E s \in SocketIds(SettleLim), raw \in SettleFrames :
        SocketMessage(s, raw, SettleLim)
  \/ \E s \in SocketIds(SettleLim) : SocketClosing(s, SettleLim)
  \/ \E s \in SocketIds(SettleLim) : SocketClose(s, SettleLim)
  \/ \E s \in SocketIds(SettleLim) : SocketError(s, SettleLim)
  \/ \E s \in SocketIds(SettleLim) : ProbeOpen(s, SettleLim)
  \/ \E s \in SocketIds(SettleLim) : ProbeRefused(s, SettleLim)

SettleFairness ==
  \A n \in CallIds(SettleLim) : WF_vars(RequestTimeout(n, SettleLim))

SpecSettle == Init /\ [][SettleNext]_vars /\ SettleFairness


(***************************************************************************)
(* The page (App.svelte) once onMount has ended without finding or         *)
(* starting a backend: every candidate port refused, so connect() left the *)
(* status at error, the preflight failed, and booting is false again,      *)
(* which enables the Reconnect button whenever reconnectInFlight is false. *)
(* The user clicks Reconnect, the reconnect timer fires, a backend may     *)
(* accept or refuse any probe, answer any request and drop any socket.     *)
(***************************************************************************)
AppLim ==
  Lim(MaxAppReq, MaxAppSockets, DEFAULT_PORT..(DEFAULT_PORT + MaxAppPorts - 1))

\* the answers of a backend to the requests made so far
AppFrames ==
  {Json(Response(ReqKey(n), ok, "", 0)) :
     n \in CallIds(AppLim), ok \in BOOLEAN}

InitApp ==
  /\ ws = 0
  /\ socks = EmptyMap
  /\ requestCounter = 0
  /\ pending = EmptyMap
  /\ timers = {}
  /\ calls = EmptyMap
  /\ wire = <<>>
  /\ connectionStatus = "error"
  /\ backendRunning = FALSE
  /\ boundPort = 0
  /\ reconnectTimer = 0
  /\ reconnectTimeouts = EmptyMap
  /\ reconnectAttempts = 0
  /\ reconnectInFlight = FALSE
  /\ reconnectPaused = FALSE
  /\ backendManaged = FALSE
  /\ booting = FALSE
  /\ mounted = "mounted"
  /\ invokes = <<>>
  /\ PageInit
  /\ lastOp = Op("init", 0, "")
  /\ seedPort = DEFAULT_PORT
  /\ candidates = <<>>

\* a click on Reconnect, which is disabled while reconnectInFlight
HandleReconnect(lim) ==
  /\ ~reconnectInFlight
  /\ ~booting /\ mounted = "mounted"
  /\ Step(handleReconnect(Cur), "handleReconnect", 0, lim)

\* a timeout armed by scheduleReconnect fires: its callback runs
\* attemptReconnect
ReconnectTimer(h, lim) ==
  /\ h \in DOMAIN reconnectTimeouts
  /\ Step(attemptReconnect([Cur EXCEPT !.reconnectTimeouts = MapDelete(@, h)]),
          "attemptReconnect", 0, lim)

AppNext ==
  \/ HandleReconnect(AppLim)
  \/ \E h \in TimeoutIds : ReconnectTimer(h, AppLim)
  \/ \E n \in CallIds(AppLim) : RequestTimeout(n, AppLim)
  \/ \E s \in SocketIds(AppLim), raw \in AppFrames :
        SocketMessage(s, raw, AppLim)
  \/ \E s \in SocketIds(AppLim) : SocketClosing(s, AppLim)
  \/ \E s \in SocketIds(AppLim) : SocketClose(s, AppLim)
  \/ \E s \in SocketIds(AppLim) : SocketError(s, AppLim)
  \/ \E s \in SocketIds(AppLim) : ProbeOpen(s, AppLim)
  \/ \E s \in SocketIds(AppLim) : ProbeRefused(s, AppLim)
  \/ \E s \in SocketIds(AppLim) : ProbeTimeout(s, AppLim)

SpecApp == InitApp /\ [][AppNext]_vars

(***************************************************************************)
(* The supervisor with a user who clicks Reconnect only when no connect()  *)
(* call is probing; a backend listens on DEFAULT_PORT or nowhere, and it   *)
(* answers a request with ok or not at all.                                *)
(***************************************************************************)
\* a connect() call is probing a candidate port
ConnectInFlight == \E s \in DOMAIN socks : socks[s].handlers = "probe"

SupLim == Lim(MaxSupReq, MaxSockets, {DEFAULT_PORT})

SupFrames == {Json(Response(ReqKey(n), TRUE, "", 0)) : n \in CallIds(SupLim)}

SupNext ==
  \/ (~ConnectInFlight /\ HandleReconnect(SupLim))
  \/ \E h \in TimeoutIds : ReconnectTimer(h, SupLim)
  \/ \E n \in CallIds(SupLim) : RequestTimeout(n, SupLim)
  \/ \E s \in SocketIds(SupLim), raw \in SupFrames :
        SocketMessage(s, raw, SupLim)
  \/ \E s \in SocketIds(SupLim) : SocketClose(s, SupLim)
  \/ \E s \in SocketIds(SupLim) : ProbeOpen(s, SupLim)
  \/ \E s \in SocketIds(SupLim) : ProbeRefused(s, SupLim)

SpecSupervisor == InitApp /\ [][SupNext]_vars

(***************************************************************************)
(* The page from its construction to its teardown, with a user who acts    *)
(* only when nothing the page started is under way, a backend that answers *)
(* every request, and a socket that closes only between requests.  The     *)
(* host is not part of the page: its replies are inputs.  A status reply   *)
(* says that no backend runs or that the one the host spawned runs on      *)
(* DEFAULT_PORT; a spawn that succeeds reports a running, managed backend  *)
(* on DEFAULT_PORT; a stop that succeeds reports none; a command may fail. *)
(***************************************************************************)
StatusReply(running, managed, port) ==
  [threw |-> FALSE, ok |-> TRUE, running |-> running, managed |-> managed,
   port |-> port, message |-> ""]

\* the message of a preflight report that is not ok
PreflightBlocked == "Backend command not found"

PreflightReply(ok) ==
  [threw |-> FALSE, ok |-> ok, running |-> FALSE, managed |-> FALSE,
   port |-> 0, message |-> IF ok THEN "" ELSE PreflightBlocked]

Threw ==
  [threw |-> TRUE, ok |-> FALSE, running |-> FALSE, managed |-> FALSE,
   port |-> 0, message |-> ""]

HostReplies(cmd) ==
  IF cmd = "backend_status"
  THEN {StatusReply(FALSE, FALSE, 0), StatusReply(TRUE, TRUE, DEFAULT_PORT),
        Threw}
  ELSE IF cmd = "backend_preflight"
  THEN {PreflightReply(TRUE), PreflightReply(FALSE)}
  ELSE IF cmd = "start_backend"
  THEN {StatusReply(TRUE, TRUE, DEFAULT_PORT), Threw}
  ELSE {StatusReply(FALSE, FALSE, 0), Threw}

\* nothing the page started is under way
Idle == ~ConnectInFlight /\ DOMAIN pending = {} /\ invokes = <<>>

LifeLim == Lim(MaxLifeReq, MaxSockets, {DEFAULT_PORT})

LifeFrames == {Json(Response(ReqKey(n), TRUE, "", 0)) : n \in CallIds(LifeLim)}

InitLife ==
  /\ ws = 0
  /\ socks = EmptyMap
  /\ requestCounter = 0
  /\ pending = EmptyMap
  /\ timers = {}
  /\ calls = EmptyMap
  /\ wire = <<>>
  /\ connectionStatus = "disconnected"
  /\ backendRunning = FALSE
  /\ boundPort = 0
  /\ reconnectTimer = 0
  /\ reconnectTimeouts = EmptyMap
  /\ reconnectAttempts = 0
  /\ reconnectInFlight = FALSE
  /\ reconnectPaused = FALSE
  /\ backendManaged = FALSE
  /\ booting = FALSE
  /\ mounted = "created"
  /\ invokes = <<>>
  /\ PageInit
  /\ lastOp = Op("init", 0, "")
  /\ seedPort = DEFAULT_PORT
  /\ candidates = <<>>

OnMount ==
  /\ mounted = "created"
  /\ Step(onMount(Cur), "onMount", 0, LifeLim)

\* a click on Start Backend, which is disabled while booting
HandleStartBackend ==
  /\ mounted = "mounted" /\ ~booting
  /\ Step(handleStartBackend(Cur), "handleStartBackend", 0, LifeLim)

\* a click on Stop Managed Backend, which is disabled unless backendManaged
HandleStopBackend ==
  /\ mounted = "mounted" /\ backendManaged
  /\ Step(handleStopBackend(Cur), "handleStopBackend", 0, LifeLim)

OnDestroy ==
  /\ mounted = "mounted"
  /\ Step(onDestroy(Cur), "onDestroy", 0, LifeLim)

HostReply(i, reply) ==
  /\ i \in DOMAIN invokes
  /\ reply \in HostReplies(invokes[i].cmd)
  /\ Step(hostReplied(Cur, i, reply), "event",
          IF reply.threw THEN 1 ELSE IF reply.ok THEN 0 ELSE 2, LifeLim)

LifeNext ==
  \/ OnMount
  \/ (Idle /\ HandleStartBackend)
  \/ (Idle /\ HandleStopBackend)
  \/ (Idle /\ OnDestroy)
  \/ \E i \in 1..MaxInvokes, reply \in HostReplies("backend_status")
           \cup HostReplies("backend_preflight") \cup HostReplies("stop_backend") :
        HostReply(i, reply)
  \/ \E h \in TimeoutIds : ReconnectTimer(h, LifeLim)
  \/ \E s \in SocketIds(LifeLim), raw \in LifeFrames :
        SocketMessage(s, raw, LifeLim)
  \/ \E s \in SocketIds(LifeLim) :
        DOMAIN pending = {} /\ SocketClose(s, LifeLim)
  \/ \E s \in SocketIds(LifeLim) : ProbeOpen(s, LifeLim)
  \/ \E s \in SocketIds(LifeLim) : ProbeRefused(s, LifeLim)

SpecLife == InitLife /\ [][LifeNext]_vars

(***************************************************************************)
(* The history cache of the page.  The page is connected by a call of      *)
(* connect(); the backend sends transcription and history_appended events, *)
(* numbering the rows of its history as it writes them, so the entry of an *)
(* event is the successor of the newest entry the page holds.              *)
(***************************************************************************)
\* a frame arrives on the socket of the client; lastOp keeps the frame
ServerFrame(s, raw, lim) ==
  /\ s \in DOMAIN socks
  /\ socks[s].handlers = "client"
  /\ socks[s].readyState = "OPEN"
  /\ Step(handleMessage(Cur, raw), "message", raw.value, lim)

HistoryLim == Lim(0, MaxSockets, {DEFAULT_PORT})

Texts == {"one", "two"}

NextEntry ==
  IF historyEntries = <<>> THEN 1 ELSE Head(historyEntries) + 1

HistoryFrames ==
  {Json(Transcription(text, entry)) :
     text \in Texts, entry \in {NoEntry, NextEntry}}
  \cup {Json(HistoryAppended(NextEntry))}

HistoryNext ==
  \/ Connect(<<DEFAULT_PORT>>)
  \/ \E s \in SocketIds(HistoryLim) : ProbeOpen(s, HistoryLim)
  \/ \E s \in SocketIds(HistoryLim), raw \in HistoryFrames :
        /\ raw.value.entry <= MaxEntryId
        /\ ServerFrame(s, raw, HistoryLim)

SpecHistory == Init /\ [][HistoryNext]_vars

(***************************************************************************)
(* The model download of the page.  The page is connected; the backend     *)
(* sends model_download events with any status and any progress, and       *)
(* answers the get_capabilities requests the page makes when a download    *)
(* completes, reporting a download in progress or none.                    *)
(***************************************************************************)
JobLim == Lim(MaxJobReq, MaxSockets, {DEFAULT_PORT})

Percents == {-5, 0, 50, 100, 105}

JobFrames ==
  {Json(ModelDownload(status, TRUE, pct)) :
     status \in {"starting", "downloading", "completed", "failed"},
     pct \in Percents}
  \cup {Json(ModelDownload(status, FALSE, 0)) :
          status \in {"starting", "completed"}}
  \cup {Json(WithResult(Response(ReqKey(n), TRUE, "", 0),
                        Capabilities(active))) :
          n \in CallIds(JobLim), active \in BOOLEAN}

JobNext ==
  \/ Connect(<<DEFAULT_PORT>>)
  \/ \E s \in SocketIds(JobLim) : ProbeOpen(s, JobLim)
  \/ \E s \in SocketIds(JobLim), raw \in JobFrames :
        ServerFrame(s, raw, JobLim)

SpecJobs == Init /\ [][JobNext]_vars

(***************************************************************************)
(* Responses and events on one socket.  The page is connected; the user    *)
(* clicks Refresh History; the backend sends state, error and              *)
(* history_appended events and responses: to a request that is pending or  *)
(* to none, ok or not, with history entries or without a result.           *)
(***************************************************************************)
PageLim == Lim(MaxPageReq, MaxSockets, {DEFAULT_PORT})

PageFrames ==
  {Json(StateEvent("recording")), Json(ErrorEvent("engine failed")),
   Json(HistoryAppended(NextEntry))}
  \cup {Json(WithResult(Response(id, ok, IF ok THEN "" ELSE "server error", 0),
                        result)) :
          id \in {NullId} \cup {ReqKey(n) : n \in CallIds(PageLim)},
          ok \in BOOLEAN, result \in {NoResult, Entries(<<9, 8>>)}}

\* a click on Refresh History
RefreshHistory ==
  /\ mounted = "mounted"
  /\ Step(refreshHistory(Cur), "refreshHistory", 0, PageLim)

PageNext ==
  \/ Connect(<<DEFAULT_PORT>>)
  \/ \E s \in SocketIds(PageLim) : ProbeOpen(s, PageLim)
  \/ RefreshHistory
  \/ \E s \in SocketIds(PageLim), raw \in PageFrames :
        /\ raw.value.type = "history_appended"
             => raw.value.entry <= MaxPageEntry
        /\ ServerFrame(s, raw, PageLim)

SpecPage == Init /\ [][PageNext]_vars

(***************************************************************************)
(* The command frame.  The client is connected and its caller passes any   *)
(* payload, also one with a `type` or a `request_id` key of its own; the   *)
(* backend answers under the id a frame carried, or a deadline passes.     *)
(***************************************************************************)
FramePayloads ==
  {EmptyMap, [limit |-> 100, offset |-> 0], [type |-> "shutdown"],
   [request_id |-> ReqKey(1)], [key |-> "k", value |-> "v"]}

FrameNext ==
  \/ Connect(<<DEFAULT_PORT>>)
  \/ \E s \in SocketIds(ClientLim) : ProbeOpen(s, ClientLim)
  \/ \E type \in {"ping", "set_dictionary"}, payload \in FramePayloads :
        SendCommand(type, payload)
  \/ \E s \in SocketIds(ClientLim), n \in CallIds(ClientLim) :
        ServerFrame(s, Json(Response(ReqKey(n), TRUE, "", 0)), ClientLim)
  \/ \E n \in CallIds(ClientLim) : RequestTimeout(n, ClientLim)

SpecFrame == Init /\ [][FrameNext]_vars

(***************************************************************************)
(* The page torn down at any moment.  As in the page after a failed        *)
(* startup, the user clicks Reconnect and a backend may accept or refuse   *)
(* the probe and answers the first requests; the component may be          *)
(* destroyed while the connect() of a click is still probing.              *)
(***************************************************************************)
TeardownNext ==
  \/ (~ConnectInFlight /\ HandleReconnect(SupLim))
  \/ OnDestroy
  \/ \E h \in TimeoutIds : ReconnectTimer(h, SupLim)
  \/ \E s \in SocketIds(SupLim), raw \in SupFrames :
        SocketMessage(s, raw, SupLim)
  \/ \E s \in SocketIds(SupLim) : SocketClose(s, SupLim)
  \/ \E s \in SocketIds(SupLim) : ProbeOpen(s, SupLim)
  \/ \E s \in SocketIds(SupLim) : ProbeRefused(s, SupLim)

SpecTeardown == InitApp /\ [][TeardownNext]_vars

(***************************************************************************)
(* The page from its construction to its teardown with a backend that may  *)
(* fail one request, a `ping` or a `shutdown`: it answers with an error or *)
(* not at all, so that the deadline passes, or it closes the socket before *)
(* it has answered `shutdown`.                                             *)
(***************************************************************************)
\* request n is pending, is a ping or a shutdown, and no request failed
\* before it
MayFail(n) ==
  /\ ReqKey(n) \in DOMAIN pending
  /\ calls[n].type \in {"ping", "shutdown"}
  /\ \A m \in DOMAIN calls : calls[m].outcome # "rejected"

FaultNext ==
  \/ LifeNext
  \/ \E n \in CallIds(LifeLim) : MayFail(n) /\ RequestTimeout(n, LifeLim)
  \/ \E s \in SocketIds(LifeLim), n \in CallIds(LifeLim) :
        /\ MayFail(n)
        /\ SocketMessage(s, Json(Response(ReqKey(n), FALSE, "server error", 0)),
                         LifeLim)
  \/ \E s \in SocketIds(LifeLim), n \in CallIds(LifeLim) :
        /\ MayFail(n) /\ calls[n].type = "shutdown"
        /\ SocketClose(s, LifeLim)

SpecFault == InitLife /\ [][FaultNext]_vars

(***************************************************************************)
(* The two background jobs of the page side by side.  The page is          *)
(* connected; the user clicks Download and Apply storage root while their  *)
(* buttons are enabled; the backend sends model_download and               *)
(* storage_migration events with any status and a progress above 100, and  *)
(* answers each request of the page with what the request asks for.        *)
(***************************************************************************)
\* the page keeps the one socket it connected with
OverlayLim == Lim(MaxOverlayReq, 1, {DEFAULT_PORT})

OverlayPercents == {105}

\* response.result of an answer to a request of the given type
OverlayResults(type) ==
  IF type = "get_capabilities"
  THEN {Capabilities(active) : active \in BOOLEAN}
  ELSE IF type = "get_storage_status"
  THEN {StorageStatus(active) : active \in BOOLEAN}
  ELSE IF type = "download_model" THEN {NoResult, Downloaded(TRUE)}
  ELSE {NoResult}

\* the answers of the backend to request n
OverlayAnswers(n) ==
  IF n \notin DOMAIN calls THEN {}
  ELSE {Json(WithResult(Response(ReqKey(n), TRUE, "", 0), result)) :
               result \in OverlayResults(calls[n].type)}

OverlayFrames ==
  {Json(ModelDownload(status, TRUE, pct)) :
     status \in {"starting", "downloading", "completed", "failed"},
     pct \in OverlayPercents}
  \cup {Json(StorageMigration(status, pct)) :
          status \in {"starting", "copying", "completed", "failed"},
          pct \in OverlayPercents}
  \cup UNION {OverlayAnswers(n) : n \in CallIds(OverlayLim)}

\* a click on Download, which is disabled while a download is loading
DownloadSelectedModel(requirement) ==
  /\ isConnected(Cur)
  /\ modelDownloadState # "loading"
  /\ Step(downloadSelectedModel(Cur, requirement), "downloadSelectedModel",
          0, OverlayLim)

\* a click on Apply storage root, which is disabled while a migration runs
ApplyStorageRoot(nextRoot) ==
  /\ isConnected(Cur)
  /\ storageMigrationState # "running"
  /\ Step(applyStorageRoot(Cur, nextRoot), "applyStorageRoot", 0, OverlayLim)

OverlayNext ==
  \/ Connect(<<DEFAULT_PORT>>)
  \/ \E s \in SocketIds(OverlayLim) : ProbeOpen(s, OverlayLim)
  \/ \E requirement \in {"none", "short"} :
        DownloadSelectedModel(requirement)
  \/ \E nextRoot \in {"", "D:/keyvox"} : ApplyStorageRoot(nextRoot)
  \/ \E s \in SocketIds(OverlayLim), raw \in OverlayFrames :
        ServerFrame(s, raw, OverlayLim)

SpecOverlay == Init /\ [][OverlayNext]_vars

(***************************************************************************)
(* The dictionary cache while the page hydrates.  The page starts with an  *)
(* empty cache; the user clicks Reconnect, the page connects and           *)
(* hydrateFromServer makes its requests one after the other, get_dictionary*)
(* last.  The backend answers the pending request, get_dictionary with the *)
(* dictionary it read (empty, or holding an older value of the one key),   *)
(* and sends dictionary_updated and dictionary_deleted events for that key *)
(* at any moment.                                                          *)
(***************************************************************************)
\* the page keeps the one socket it connected with
HydrateLim == Lim(MaxHydrateReq, 1, {DEFAULT_PORT})

Baselines == {EmptyMap, "teh" :> "tea"}

\* the answers of the backend to request n while it is pending
HydrateAnswers(n) ==
  IF ReqKey(n) \notin DOMAIN pending THEN {}
  ELSE IF calls[n].type = "get_dictionary"
  THEN {Json(WithResult(Response(ReqKey(n), TRUE, "", 0),
                        Dictionary(entries))) : entries \in Baselines}
  ELSE {Json(Response(ReqKey(n), TRUE, "", 0))}

HydrateFrames ==
  {Json(DictionaryUpdated("teh", "the")), Json(DictionaryDeleted("teh"))}
  \cup UNION {HydrateAnswers(n) : n \in CallIds(HydrateLim)}

HydrateNext ==
  \/ (~ConnectInFlight /\ HandleReconnect(HydrateLim))
  \/ \E s \in SocketIds(HydrateLim) : ProbeOpen(s, HydrateLim)
  \/ \E s \in SocketIds(HydrateLim), raw \in HydrateFrames :
        ServerFrame(s, raw, HydrateLim)

SpecHydrate == InitApp /\ [][HydrateNext]_vars

(***************************************************************************)
(* orderedPorts as a function of its seed: Init draws the seed from both   *)
(* sides of the base window and from inside it.                            *)
(***************************************************************************)
Seeds == (DEFAULT_PORT - SeedSpan)..(DEFAULT_PORT + PORT_WINDOW - 1 + SeedSpan)

InitPorts ==
  /\ ws = 0
  /\ socks = EmptyMap
  /\ requestCounter = 0
  /\ pending = EmptyMap
  /\ timers = {}
  /\ calls = EmptyMap
  /\ wire = <<>>
  /\ connectionStatus = "disconnected"
  /\ backendRunning = FALSE
  /\ boundPort = 0
  /\ reconnectTimer = 0
  /\ reconnectTimeouts = EmptyMap
  /\ reconnectAttempts = 0
  /\ reconnectInFlight = FALSE
  /\ reconnectPaused = FALSE
  /\ backendManaged = FALSE
  /\ booting = FALSE
  /\ mounted = "mounted"
  /\ invokes = <<>>
  /\ PageInit
  /\ lastOp = Op("init", 0, "")
  /\ seedPort \in Seeds
  /\ candidates = <<>>

OrderedPorts ==
  /\ candidates = <<>>
  /\ candidates' = orderedPorts(seedPort)
  /\ lastOp' = Op("orderedPorts", 0, "")
  /\ UNCHANGED <<ws, socks, requestCounter, pending, timers, calls, wire,
                 connectionStatus, backendRunning, boundPort, reconnectTimer,
                 reconnectTimeouts, reconnectAttempts, reconnectInFlight,
                 reconnectPaused, backendManaged, booting, mounted, invokes,
                 runtimeBlockingMessage, engineState, lastTranscript,
                 lastError, historyEntries, modelDownloadState,
                 modelDownloadProgressPct, modelDownloadMessage,
                 modelDownloadBytes, storageMigrationState,
                 storageMigrationProgressPct, storageMigrationMessage,
                 dictionaryEntries, seedPort>>

SpecPorts == InitPorts /\ [][OrderedPorts]_vars

(***************************************************************************)
(* Properties of the protocol client.                                      *)
(***************************************************************************)
RejectedWith(n, msg) ==
  calls[n].outcome = "rejected" /\ calls[n].error.msg = msg

C2_DisconnectRejectsAllOnce ==
  [][/\ lastOp'.op = "disconnect" =>
          /\ \A k \in DOMAIN pending :
               /\ calls'[pending[k].call].outcome = "rejected"
               /\ calls'[pending[k].call].error = Err("Socket disconnected", "")
               /\ calls'[pending[k].call].settles = 1
               /\ pending[k].timeoutId \notin timers'
          /\ pending' = EmptyMap
     /\ \A n \in DOMAIN calls :
          calls[n].outcome # "pending" =>
            /\ n \in DOMAIN calls'
            /\ calls'[n] = calls[n]
            /\ calls[n].settles = 1]_vars

\* a disconnect() has just rejected two requests at once
C2_Witness ==
  /\ lastOp.op = "disconnect"
  /\ \E n, m \in DOMAIN calls :
       /\ n # m
       /\ RejectedWith(n, "Socket disconnected")
       /\ RejectedWith(m, "Socket disconnected")
  /\ ~\E n \in DOMAIN calls : calls[n].outcome = "resolved"
  /\ ~\E n \in DOMAIN calls : RejectedWith(n, "Request timed out: ")

\* C3: a response frame whose request_id is not in the pending map is
\* dropped: no pending request is resolved, rejected or removed and no
\* deadline timer is cancelled.
C3_UnmatchedResponseDropped ==
  [][lastOp'.ret = "unmatched response" =>
       /\ pending' = pending
       /\ timers' = timers
       /\ calls' = calls
       /\ ws' = ws /\ socks' = socks /\ wire' = wire]_vars

\* a response came for a request that had timed out, or came twice, while
\* another request was pending
C3_Witness ==
  /\ lastOp.ret = "unmatched response"
  /\ DOMAIN pending # {}
  /\ \E n \in DOMAIN calls : calls[n].outcome # "pending"

\* C4: when the deadline of a request passes before a matching response,
\* its promise rejects with 'Request timed out: <type>', type being the
\* type of the command frame it sent, its id leaves the pending map, and
\* every other pending request, timer and promise is left as it was.
C4_TimeoutRejectsAndRemoves ==
  [][\A n \in CallIds(ClientLim) :
       RequestTimeout(n, ClientLim) =>
         /\ calls[n].outcome = "pending"
         /\ calls'[n].outcome = "rejected"
         /\ calls'[n].error = Err("Request timed out: ", calls[n].frame.type)
         /\ calls'[n].settles = 1
         /\ ReqKey(n) \notin DOMAIN pending'
         /\ pending' = MapDelete(pending, ReqKey(n))
         /\ timers' = timers \ {n}
         /\ \A m \in DOMAIN calls \ {n} : calls'[m] = calls[m]
         /\ ws' = ws /\ wire' = wire]_vars

\* one request has timed out while another is still pending with its timer
C4_Witness ==
  \E n, m \in DOMAIN calls :
    /\ RejectedWith(n, "Request timed out: ")
    /\ calls[n].error.arg = "get_history"
    /\ calls[m].outcome = "pending"
    /\ ReqKey(m) \in DOMAIN pending
    /\ ReqKey(n) \notin DOMAIN pending
    /\ m \in timers

\* C5: at most one of {matching response, deadline timeout} settles a
\* request: no promise is settled twice, an armed timer or a pending entry
\* belongs to a promise that is still pending, so that after a response
\* the timer cannot fire and after a timeout no response can match.
C5_ResponseXorTimeout ==
  /\ \A n \in DOMAIN calls : calls[n].settles <= 1
  /\ \A n \in timers : n \in DOMAIN calls /\ calls[n].outcome = "pending"
  /\ \A k \in DOMAIN pending :
       /\ calls[pending[k].call].outcome = "pending"
       /\ pending[k].timeoutId \in timers
  /\ \A n \in DOMAIN calls :
       calls[n].outcome = "pending" <=> calls[n].settles = 0

\* both orders have run: a request settled by its response, and a request
\* rejected by its timeout whose response came afterwards
C5_Witness ==
  /\ \E n \in DOMAIN calls : calls[n].outcome = "resolved"
  /\ \E m \in DOMAIN calls : RejectedWith(m, "Request timed out: ")
  /\ lastOp.ret = "unmatched response"
  /\ timers = {}

\* C6: a second disconnect() in a row raises no error and changes nothing:
\* it rejects nothing further, and the state is as the first call left
\* it, with ws null, the pending map empty and the status disconnected.
C6_DisconnectIdempotent ==
  [][(lastOp.op = "disconnect" /\ lastOp'.op = "disconnect") =>
       /\ lastOp'.ret = ""
       /\ calls' = calls
       /\ ws' = 0 /\ ws = 0
       /\ pending' = EmptyMap /\ pending = EmptyMap
       /\ connectionStatus' = "disconnected"
       /\ connectionStatus = "disconnected"
       /\ UNCHANGED <<socks, requestCounter, timers, wire, backendRunning,
                      boundPort, reconnectTimer, reconnectAttempts,
                      reconnectInFlight, reconnectPaused>>]_vars

\* disconnect() ran twice in a row, the first on a bound socket with a
\* request pending
C6_Witness ==
  /\ lastOp = Op("disconnect", 2, "")
  /\ \E n \in DOMAIN calls : RejectedWith(n, "Socket disconnected")
  /\ wire # <<>>
  /\ requestCounter = 1

\* C7: sendCommand without an open socket fails with 'Socket is not
\* connected' and does nothing else: no frame is sent, no PendingRequest
\* is registered, no timer is started.
C7_SendWhileNotConnected ==
  [][(lastOp'.op = "sendCommand" /\ ~isConnected(Cur)) =>
       /\ lastOp'.ret = "Socket is not connected"
       /\ wire' = wire
       /\ pending' = pending
       /\ timers' = timers
       /\ calls' = calls
       /\ requestCounter' = requestCounter
       /\ UNCHANGED <<ws, socks, connectionStatus, backendRunning, boundPort,
                      reconnectTimer, reconnectAttempts, reconnectInFlight,
                      reconnectPaused>>]_vars

\* sendCommand failed on a socket that is bound but no longer open
C7_Witness ==
  /\ lastOp = Op("sendCommand", 0, "Socket is not connected")
  /\ ws # 0
  /\ socks[ws].readyState = "CLOSING"

\* C11: a frame that fails JSON decoding is dropped: the pending map, the
\* timers and every promise stay as they are, nothing reaches
\* client.onMessage (the page state it writes is unchanged), the status
\* becomes error, and the socket stays bound and open, so that sendCommand
\* is accepted afterwards exactly when it was before.
C11_BadJsonDropped ==
  [][\A s \in SocketIds(ClientLim) :
       SocketMessage(s, BadJson, ClientLim) =>
         /\ pending' = pending /\ timers' = timers /\ calls' = calls
         /\ wire' = wire /\ requestCounter' = requestCounter
         /\ boundPort' = boundPort /\ backendRunning' = backendRunning
         /\ connectionStatus' = "error"
         /\ ws' = ws /\ socks' = socks
         /\ socks'[s].readyState = "OPEN"
         /\ canSend([Cur EXCEPT !.ws = ws', !.socks = socks']) = canSend(Cur)
         /\ UNCHANGED <<reconnectTimer, reconnectAttempts, reconnectInFlight,
                        reconnectPaused>>]_vars

\* after an undecodable frame left the status at error on the open socket,
\* a command was accepted while an earlier one is still pending
C11_Witness ==
  /\ connectionStatus = "error"
  /\ ws # 0 /\ socks[ws].readyState = "OPEN"
  /\ lastOp = Op("sendCommand", 0, "")
  /\ requestCounter = 2
  /\ DOMAIN pending = {ReqKey(1), ReqKey(2)}

(***************************************************************************)
(* Properties of port selection.                                           *)
(***************************************************************************)
BaseWindow == DEFAULT_PORT..(DEFAULT_PORT + PORT_WINDOW - 1)

\* C9: orderedPorts(seed) is the seed followed by the base window
\* 9876..9885 ascending without the seed: no port twice, all ten window
\* ports present, 10 entries for a seed inside the window and 11 otherwise.
C9_OrderedPorts ==
  candidates # <<>> =>
    /\ candidates[1] = seedPort
    /\ \A i, j \in 2..Len(candidates) : i < j => candidates[i] < candidates[j]
    /\ {candidates[i] : i \in 2..Len(candidates)} = (9876..9885) \ {seedPort}
    /\ \A i, j \in 1..Len(candidates) : i # j => candidates[i] # candidates[j]
    /\ BaseWindow \subseteq {candidates[i] : i \in 1..Len(candidates)}
    /\ Len(candidates) = IF seedPort \in BaseWindow THEN 10 ELSE 11

\* the list for a seed in the middle of the window
C9_Witness ==
  /\ seedPort = DEFAULT_PORT + 3
  /\ Len(candidates) = 10
  /\ candidates[1] = DEFAULT_PORT + 3
  /\ candidates[2] = DEFAULT_PORT

(***************************************************************************)
(* Properties of connecting.                                               *)
(***************************************************************************)
LiveTransports ==
  {s \in DOMAIN socks :
     socks[s].handlers = "client" /\ socks[s].readyState = "OPEN"}

\* C8: when a connect() call has exhausted its candidates and rejected
\* with the no-backend error, the status is error and no socket is bound.
C8_RejectedLeavesNothingBound ==
  lastOp.ret = "Unable to connect to Keyvox backend" =>
    /\ connectionStatus = "error"
    /\ ws = 0
    /\ LiveTransports = {}

\* C10: at most one socket is open with the handlers of the client
\* attached.
C10_OneLiveTransport ==
  Cardinality(LiveTransports) <= 1

(***************************************************************************)
(* Properties of the reconnection supervisor.                              *)
(***************************************************************************)
\* the one armed reconnect timeout is the one reconnectTimer holds, and
\* its delay is d
ArmedWith(d) ==
  /\ reconnectTimer # 0
  /\ reconnectTimeouts = (reconnectTimer :> d)

\* C13: after k consecutive failed automatic attempts (k = 1..4) the timer
\* for the next attempt is armed with min(1200 * 2^k, 9000) ms, and after
\* the fifth failure the supervisor is paused with no timer armed.  Stated
\* for the state an attempt leaves when its connect() found no candidate
\* port open, the backend being expected to run and no other attempt
\* running.
C13_BackoffDelays ==
  (/\ lastOp.ret = "Unable to connect to Keyvox backend"
   /\ backendRunning /\ ws = 0
   /\ ~ConnectInFlight /\ ~reconnectInFlight
   /\ reconnectAttempts >= 1)
  => IF reconnectAttempts >= MAX_RECONNECT_ATTEMPTS
     THEN reconnectPaused /\ reconnectTimeouts = EmptyMap
     ELSE ArmedWith(Min(BASE_RECONNECT_DELAY_MS * 2 ^ reconnectAttempts,
                        MAX_RECONNECT_DELAY_MS))

\* C12: while the backend is expected to run and the transport is down,
\* recovery goes on without the user unless the supervisor is paused: a
\* reconnect timeout is armed or some socket of a connect() call can still
\* raise an event.
C12_RecoveryGoesOn ==
  (backendRunning /\ ws = 0 /\ ~reconnectPaused)
  => (reconnectTimeouts # EmptyMap \/ DOMAIN socks # {})

\* C14: whenever the client reports `connected` (a probe opened and
\* connect() resolved), the task ends with connectionStatus connected,
\* reconnectAttempts 0, reconnectPaused false, reconnectTimer null and no
\* reconnect timeout armed.
C14_ConnectedResetsSupervisor ==
  [][lastOp'.ret = "resolved" =>
       /\ connectionStatus' = "connected"
       /\ reconnectAttempts' = 0
       /\ ~reconnectPaused'
       /\ reconnectTimer' = 0
       /\ reconnectTimeouts' = EmptyMap]_vars

\* the second connection of the page was just reported: the click on
\* Reconnect found backendRunning true, so that the disconnect() inside
\* connect() armed a timeout, which `connected` then cleared
C14_Witness ==
  /\ lastOp.ret = "resolved"
  /\ connectionStatus = "connected"
  /\ requestCounter = 2
  /\ calls[2].waiter.fn = "handleReconnect"
  /\ reconnectTimeouts = EmptyMap

\* C15: when the bound socket raises its close event while backendRunning
\* is true and reconnectAttempts is 0, the task ends with exactly one
\* reconnect timeout armed, the one reconnectTimer holds, with delay
\* 1200 ms; the task starts no connect() call, and an automatic attempt
\* (reconnectInFlight turning true) starts only in the callback of a
\* timeout that fired.
C15_CloseArmsOneTimer ==
  [][/\ \A s \in SocketIds(SupLim) :
          (/\ SocketClose(s, SupLim)
           /\ s = ws /\ backendRunning /\ reconnectAttempts = 0)
          => /\ ArmedWith(BASE_RECONNECT_DELAY_MS)'
             /\ socks' = Reap(socks, s)
             /\ ~reconnectInFlight'
     /\ (~reconnectInFlight /\ reconnectInFlight')
          => lastOp'.op = "attemptReconnect"]_vars

\* the close event of the bound socket just armed the first timeout
C15_Witness ==
  /\ lastOp = Op("event", 0, "")
  /\ connectionStatus = "disconnected"
  /\ backendRunning /\ ws = 0 /\ socks = EmptyMap
  /\ reconnectAttempts = 0
  /\ ArmedWith(BASE_RECONNECT_DELAY_MS)

\* C16: after every task at most one reconnect timeout is armed and at
\* most one connect() call, made by the timeout callback or by a click on
\* Reconnect, is probing; and the callback of a timeout that fires while a
\* connect() call is probing starts no second one.
C16_OneTimerOneAttempt ==
  [][/\ Cardinality(DOMAIN reconnectTimeouts') <= 1
     /\ Cardinality({s \in DOMAIN socks' : socks'[s].handlers = "probe"}) <= 1
     /\ \A h \in TimeoutIds :
          (ReconnectTimer(h, AppLim) /\ ConnectInFlight)
          => Cardinality(DOMAIN socks') <= Cardinality(DOMAIN socks)]_vars

\* C17: a click on Reconnect ends with reconnectAttempts 0, reconnectPaused
\* false and one connect() call of handleReconnect probing its first
\* candidate; and when that call or the hydration after it fails while
\* backendRunning is true, the catch block leaves a reconnect timeout armed
\* or an automatic attempt running.
C17_ManualReconnect ==
  [][/\ lastOp'.op = "handleReconnect"
          => /\ reconnectAttempts' = 0 /\ ~reconnectPaused'
             /\ \E s \in DOMAIN socks' :
                  /\ socks'[s].idx = 1
                  /\ \A t \in DOMAIN socks' :
                       (/\ socks'[t].handlers = "probe"
                        /\ socks'[t].caller.fn = "handleReconnect") <=> t = s
     /\ (lastOp'.notice = "Reconnect failed" /\ backendRunning')
          => (reconnectTimeouts' # EmptyMap \/ reconnectInFlight')]_vars

\* C19: a task that arms a reconnect timeout ends with backendRunning true
\* and with no open socket bound, the transport having reported that it
\* closed; and the callback of a timeout that fires while backendRunning
\* is false starts no connect().
C19_ArmsOnlyWhenDown ==
  [][/\ (reconnectTimeouts = EmptyMap /\ reconnectTimeouts' # EmptyMap)
          => (backendRunning' /\ ~isConnected(Cur)')
     /\ \A h \in TimeoutIds :
          (ReconnectTimer(h, SupLim) /\ ~backendRunning) => socks' = socks]_vars

(***************************************************************************)
(* Properties of the backend lifecycle.                                    *)
(***************************************************************************)
\* C18: once the component is destroyed, and right after handleStopBackend
\* stopped a managed backend, no reconnect timeout is armed and the
\* supervisor is idle: reconnectAttempts 0, not paused, no attempt in
\* flight, and no connect() call probing.
C18_ShutdownLeavesIdle ==
  (mounted = "destroyed" \/ lastOp.notice = "Managed backend stopped")
  => /\ reconnectTimeouts = EmptyMap /\ reconnectTimer = 0
     /\ reconnectAttempts = 0 /\ ~reconnectPaused /\ ~reconnectInFlight
     /\ ~ConnectInFlight

\* C20: when an acquisition (onMount or handleStartBackend) succeeds by
\* attaching to a backend that was there, backendManaged is false; when it
\* succeeds by having the host spawn one and attaching to it,
\* backendManaged is true.
C20_OwnershipByPhase ==
  [][/\ lastOp'.notice = "Connected to existing backend" => ~backendManaged'
     /\ lastOp'.notice = "Started and connected to managed backend"
          => backendManaged']_vars

\* the attach found nothing, the host spawned a backend, and the page has
\* just finished hydrating from it
C20_Witness ==
  /\ lastOp.notice = "Started and connected to managed backend"
  /\ connectionStatus = "connected"
  /\ backendManaged /\ backendRunning
  /\ DOMAIN pending = {}

\* C21: the onDestroy callback asks the host to stop the backend if and
\* only if backendManaged held when it ran, so for an unmanaged session no
\* stop is asked for; and when the stop of the teardown fails, the error
\* reaches no one: nothing is left uncaught, no notice is raised, and
\* nothing but the list of host commands in flight changes.
C21_ExitStopsOnlyManaged ==
  [][/\ lastOp'.op = "onDestroy"
        => ((\E i \in DOMAIN invokes' : invokes'[i].cmd = "stop_backend")
              <=> backendManaged)
     /\ (\E i \in DOMAIN invokes :
            /\ invokes[i].waiter.fn = "stopManagedBackendOnExit"
            /\ Len(invokes') < Len(invokes))
        => /\ lastOp'.ret = "" /\ lastOp'.notice = ""
           /\ UNCHANGED <<ws, socks, pending, timers, connectionStatus,
                          backendRunning, backendManaged, boundPort,
                          reconnectTimeouts, reconnectTimer, mounted>>]_vars

\* a managed session was torn down, and the stop it asked of the host has
\* just failed
C21_Witness ==
  /\ mounted = "destroyed"
  /\ backendManaged
  /\ lastOp = Op("event", 1, "")
  /\ invokes = <<>>

\* C22: a start_backend command is handed to the host only in the step in
\* which a backend_preflight report that is ok arrives; when the report is
\* not ok, no start_backend is asked for, runtimeBlockingMessage becomes
\* the message of the report, and the acquisition ends in its catch block
\* ("Failed to start backend" or "Desktop startup failed").
C22_SpawnOnlyAfterPreflight ==
  [][/\ (/\ \E i \in DOMAIN invokes' : invokes'[i].cmd = "start_backend"
         /\ \A i \in DOMAIN invokes : invokes[i].cmd # "start_backend")
        => /\ \E i \in DOMAIN invokes : invokes[i].cmd = "backend_preflight"
           /\ lastOp' = Op("event", 0, "")
     /\ (/\ \E i \in DOMAIN invokes : invokes[i].cmd = "backend_preflight"
         /\ lastOp'.op = "event" /\ lastOp'.a = 2)
        => /\ \A i \in DOMAIN invokes' : invokes'[i].cmd # "start_backend"
           /\ runtimeBlockingMessage' = PreflightBlocked
           /\ lastOp'.notice \in {"Failed to start backend",
                                  "Desktop startup failed"}]_vars

\* at startup nothing answered the attach, and the preflight report has
\* just come back not ok
C22_Witness ==
  /\ lastOp.op = "event" /\ lastOp.a = 2
  /\ lastOp.notice = "Desktop startup failed"
  /\ runtimeBlockingMessage = PreflightBlocked
  /\ invokes = <<>>
  /\ ~booting

\* C23: when the startup of onMount fails after its attach was tried (the
\* attach found nothing, and then the preflight, the spawn or the attach to
\* the spawned backend failed), connectionStatus is `error`, no reconnect
\* timeout is armed and no attempt is in flight, so nothing runs until the
\* user acts; and a reconnect timeout is armed, or attemptReconnect runs,
\* only after a connect() succeeded (which is when requests are first sent).
C23_FailedStartupDoesNotRetry ==
  [][/\ (/\ lastOp'.notice = "Desktop startup failed"
         /\ \A i \in DOMAIN invokes : invokes[i].cmd # "backend_status")
        => /\ connectionStatus' = "error"
           /\ reconnectTimeouts' = EmptyMap /\ reconnectTimer' = 0
           /\ ~reconnectInFlight'
     /\ (reconnectTimeouts' # EmptyMap \/ lastOp'.op = "attemptReconnect")
        => requestCounter' > 0]_vars

\* C25: the step in which the client loses its socket without disconnect()
\* having been called (socket.onclose) rejects and removes every request
\* pending at that moment, and whenever the client holds no socket the
\* pending map is empty.
C25_TransportLossRejectsPending ==
  [][/\ (ws # 0 /\ ws' = 0 /\ lastOp'.op = "event")
        => \A n \in 1..requestCounter :
             ReqKey(n) \in DOMAIN pending
               => RejectedWith(n, "Socket disconnected")'
     /\ ws' = 0 => DOMAIN pending' = {}]_vars

\* C26: the request_id of every command frame handed to the socket differs
\* from that of every other one, whichever socket it went to, so no two
\* sendCommand calls, pending together or one after the other, share an
\* id; and every entry of the pending map is filed under the id its own
\* command frame carries.
C26_CorrelationIdsUnique ==
  /\ \A i, j \in 1..Len(wire) :
       i # j => wire[i].request_id # wire[j].request_id
  /\ \A n, m \in DOMAIN calls :
       n # m => calls[n].frame.request_id # calls[m].frame.request_id
  /\ \A k \in DOMAIN pending : calls[pending[k].call].frame.request_id = k

\* a request was rejected by disconnect(), the client connected again and
\* sent its next request, which is pending on the new socket
C26_Witness ==
  /\ requestCounter = 2
  /\ RejectedWith(1, "Socket disconnected")
  /\ DOMAIN pending = {ReqKey(2)}
  /\ isConnected(Cur)
  /\ Len(wire) = 2

\* C27: every sendCommand call that registered a request settles in the
\* end, resolved or rejected, whether or not a response comes and whether
\* or not the socket closes, provided only that an armed deadline timer
\* fires.
C27_PendingSettles ==
  \A n \in CallIds(SettleLim) :
    (n \in DOMAIN calls) ~> (n \in DOMAIN calls /\ calls[n].outcome # "pending")

\* the socket closed under a request no response had come for, and the
\* request was settled by its deadline
C27_Witness ==
  /\ requestCounter >= 1
  /\ RejectedWith(1, "Request timed out: ")
  /\ ws = 0 /\ connectionStatus = "disconnected"
  /\ lastOp.op = "event"
  /\ DOMAIN pending = {}

\* C29: a transcription event sets lastTranscript to its text whatever its
\* entry is; it changes the history cache if and only if its entry is not
\* null, and then its entry is the first of the cache.
C29_TranscriptionAndHistory ==
  [][(lastOp'.op = "message" /\ lastOp'.a.type = "transcription")
       => /\ lastTranscript' = lastOp'.a.text
          /\ (lastOp'.a.entry # NoEntry) <=> (historyEntries' # historyEntries)
          /\ lastOp'.a.entry # NoEntry
               => Head(historyEntries') = lastOp'.a.entry]_vars

\* a transcription without an entry has just replaced the last transcript
\* of a page whose history cache holds entries
C29_Witness ==
  /\ lastOp.op = "message"
  /\ lastOp.a = Transcription("two", NoEntry)
  /\ lastTranscript = "two"
  /\ Len(historyEntries) = 2

\* C30: the history cache never holds more than historyLimit entries; a
\* transcription event with an entry, or a history_appended event, puts
\* its entry first and keeps the entries that were there in their order,
\* except that a cache that was full loses its last, oldest, entry.
C30_HistoryBounded ==
  [][/\ Len(historyEntries') <= historyLimit
     /\ (/\ lastOp'.op = "message"
         /\ lastOp'.a.type \in {"transcription", "history_appended"}
         /\ lastOp'.a.entry # NoEntry)
        => /\ Head(historyEntries') = lastOp'.a.entry
           /\ Tail(historyEntries') =
                IF Len(historyEntries) < historyLimit THEN historyEntries
                ELSE SubSeq(historyEntries, 1, historyLimit - 1)]_vars

\* the cache was full and has taken one more entry: it holds historyLimit
\* entries, the newest first, and the oldest one is gone
C30_Witness ==
  /\ lastOp.op = "message" /\ lastOp.a.type = "history_appended"
  /\ Len(historyEntries) = historyLimit
  /\ Head(historyEntries) = historyLimit + 1
  /\ historyEntries[historyLimit] = 2

\* C24: the progress the page stores for the model download is always
\* within 0..100, and an event that carries a progress_pct stores it
\* clamped: a value above 100 as 100, a value below 0 as 0, any other as
\* it is; and a `completed` event, after a `starting` one or any other,
\* leaves modelDownloadState at "completed".
C24_DownloadProgressClamped ==
  [][/\ modelDownloadProgressPct' \in 0..100
     /\ (/\ lastOp'.op = "message"
         /\ lastOp'.a.type = "model_download")
        => /\ lastOp'.a.has_pct
                => modelDownloadProgressPct' =
                     IF lastOp'.a.progress_pct > 100 THEN 100
                     ELSE IF lastOp'.a.progress_pct < 0 THEN 0
                     ELSE lastOp'.a.progress_pct
           /\ ~lastOp'.a.has_pct
                => modelDownloadProgressPct' = modelDownloadProgressPct
           /\ lastOp'.a.status = "completed"
                => modelDownloadState' = "completed"
           /\ lastOp'.a.status = "starting"
                => modelDownloadState' = "loading"]_vars

\* a download that was loading has completed with a progress of 105
C24_Witness ==
  /\ lastOp.op = "message"
  /\ lastOp.a = ModelDownload("completed", TRUE, 105)
  /\ modelDownloadState = "completed"
  /\ modelDownloadProgressPct = 100
  /\ \E n \in DOMAIN calls : calls[n].type = "get_capabilities"

\* what consumeEvent writes
PageState ==
  <<engineState, lastTranscript, historyEntries, modelDownloadState,
    modelDownloadProgressPct, modelDownloadMessage, modelDownloadBytes,
    storageMigrationState, storageMigrationProgressPct,
    storageMigrationMessage, dictionaryEntries, lastError>>

C37_FrameKeepsTypeAndId ==
  [][requestCounter' = requestCounter + 1
       => LET n == requestCounter'
              frame == wire'[Len(wire')]
          IN  /\ Len(wire') = Len(wire) + 1
              /\ ReqKey(n) \in DOMAIN pending'
              /\ pending'[ReqKey(n)].call = n
              /\ frame.type = calls'[n].type
              /\ frame.request_id = ReqKey(n)]_vars

\* C35: between tasks, connectionStatus is `connected` if and only if the
\* client holds a socket whose readyState is OPEN (client.isConnected()).
C35_StatusAgreesWithTransport ==
  (connectionStatus = "connected") <=> isConnected(Cur)

\* C36: once disconnect() has been called while a probe of connect() is in
\* flight (the status is `disconnected` and a probe is still out), no event
\* of that probe binds a socket, reports `connected` or marks the backend
\* as running.
C36_DisconnectIsFinal ==
  [][(connectionStatus = "disconnected" /\ ConnectInFlight
      /\ lastOp'.op = "event")
       => /\ ws' = 0
          /\ connectionStatus' # "connected"
          /\ backendRunning' => backendRunning]_vars

\* C39: a session marked managed stays marked managed until the host has
\* stopped the backend on the page's request; no connect, reconnect or
\* Start Backend action takes the mark away, so the teardown still asks
\* the host to stop the backend.
C39_ManagedUntilStopped ==
  [][(backendManaged /\ ~backendManaged')
       => lastOp'.notice = "Managed backend stopped"]_vars

\* C38: the host is asked to spawn a backend (start_backend) only while
\* the client holds no socket and probes none: the attach found nothing
\* on any candidate port.
C38_ConnectFirst ==
  [][(/\ \E i \in DOMAIN invokes' : invokes'[i].cmd = "start_backend"
      /\ \A i \in DOMAIN invokes : invokes[i].cmd # "start_backend")
       => /\ ws = 0 /\ ws' = 0
          /\ ~ConnectInFlight
          /\ ~isConnected(Cur)]_vars

\* C40: the step in which the `shutdown` request of handleStopBackend is
\* settled, resolved or rejected, by a response, by its deadline or by
\* disconnect(), asks the host to stop the backend; and backendRunning is
\* false from the click on.
C40_StopReachesHost ==
  [][\A n \in DOMAIN calls :
       (/\ calls[n].type = "shutdown"
        /\ calls[n].outcome = "pending"
        /\ calls'[n].outcome # "pending")
         => /\ \E i \in DOMAIN invokes' : invokes'[i].cmd = "stop_backend"
            /\ ~backendRunning']_vars

(***************************************************************************)
(* The background jobs of the page.                                        *)
(***************************************************************************)
\* C31: for both kinds of background job, the model download and the
\* storage migration, the progress the page stores lies within 0..100
\* whatever progress the events of the server carry.
C31_ProgressWithinRange ==
  /\ modelDownloadProgressPct \in 0..100
  /\ storageMigrationProgressPct \in 0..100

\* the entry of each job, and the state of the page that belongs to no job
DownloadEntry ==
  <<modelDownloadState, modelDownloadProgressPct, modelDownloadMessage,
    modelDownloadBytes>>
MigrationEntry ==
  <<storageMigrationState, storageMigrationProgressPct,
    storageMigrationMessage>>
UnrelatedToJobs ==
  <<engineState, lastTranscript, historyEntries, dictionaryEntries>>

\* request n is the get_capabilities request of the refreshCapabilities
\* that the completed branch of a storage_migration event starts right
\* after its refreshStorageStatus
StartedByMigration(n) ==
  /\ n > 1 /\ n \in DOMAIN calls
  /\ calls[n].type = "get_capabilities"
  /\ calls[n - 1].type = "get_storage_status"

\* the step applies a model_download event
AppliesDownloadEvent ==
  /\ lastOp'.op = "message"
  /\ lastOp'.a.type \in {"model_download", "model_download_progress"}

\* the step applies a storage_migration event, or the answer to the
\* refresh of the capabilities that such an event started
AppliesMigrationEvent ==
  /\ lastOp'.op = "message"
  /\ \/ lastOp'.a.type = "storage_migration"
     \/ /\ lastOp'.a.type = "response"
        /\ \E n \in DOMAIN calls :
              /\ StartedByMigration(n)
              /\ lastOp'.a.request_id = ReqKey(n)
              /\ ReqKey(n) \in DOMAIN pending

TerminalStates == {"completed", "error"}

\* the step applies an event of the given types with one of the statuses
AppliesJobEvent(types, statuses) ==
  /\ lastOp'.op = "message"
  /\ lastOp'.a.type \in types
  /\ lastOp'.a.status \in statuses

\* the step applies the answer to a pending request of the given type
\* that reports a job in progress
AppliesActiveAnswer(type) ==
  /\ lastOp'.op = "message"
  /\ lastOp'.a.type = "response"
  /\ lastOp'.a.ok
  /\ lastOp'.a.request_id \in DOMAIN pending
  /\ calls[pending[lastOp'.a.request_id].call].type = type
  /\ lastOp'.a.result.kind \in {"capabilities", "storage"}
  /\ lastOp'.a.result.active

DownloadEvents == {"model_download", "model_download_progress"}
MigrationEvents == {"storage_migration"}

\* a completed or failed event of a kind puts the entry of its kind in
\* the terminal state of its status
JobEventEndsJob ==
  /\ AppliesJobEvent(DownloadEvents, {"completed"})
       => modelDownloadState' = "completed"
  /\ AppliesJobEvent(DownloadEvents, {"failed"})
       => modelDownloadState' = "error"
  /\ AppliesJobEvent(MigrationEvents, {"completed"})
       => storageMigrationState' = "completed"
  /\ AppliesJobEvent(MigrationEvents, {"failed"})
       => storageMigrationState' = "error"

DownloadLeavesTerminal ==
  modelDownloadState \in TerminalStates
    /\ modelDownloadState' \notin TerminalStates

MigrationLeavesTerminal ==
  storageMigrationState \in TerminalStates
    /\ storageMigrationState' \notin TerminalStates

\* C32 as stated: a completed or failed job event ends the active
\* designation of the job of its kind (the state becomes completed or
\* error), and the entry then stays terminal until the next starting
\* event of the same kind.
C32_TerminalUntilStarting ==
  [][/\ JobEventEndsJob
     /\ DownloadLeavesTerminal
          => AppliesJobEvent(DownloadEvents, {"starting"})
     /\ MigrationLeavesTerminal
          => AppliesJobEvent(MigrationEvents, {"starting"})]_vars

\* C32: a completed or failed job event ends the active designation of
\* the job of its kind, and the entry then stays terminal until an event
\* of the same kind with a status in progress (starting or a later one),
\* an answer of the backend reporting a job of the kind in progress
\* (active_model_download of get_capabilities, active_target of
\* get_storage_status), or a click of the user on the button of the kind.
C32_TerminalUntilActive ==
  [][/\ JobEventEndsJob
     /\ DownloadLeavesTerminal
          => \/ AppliesJobEvent(DownloadEvents,
                                {"starting", "resolving", "downloading",
                                 "finalizing"})
             \/ AppliesActiveAnswer("get_capabilities")
             \/ lastOp'.op = "downloadSelectedModel"
     /\ MigrationLeavesTerminal
          => \/ AppliesJobEvent(MigrationEvents,
                                {"starting", "copying", "verifying",
                                 "cleanup"})
             \/ AppliesActiveAnswer("get_storage_status")
             \/ lastOp'.op = "applyStorageRoot"]_vars

\* a completed event of the download has just ended its job while the
\* migration stays in the error state a failed event left it in
C32_Witness ==
  /\ lastOp.op = "message"
  /\ lastOp.a.type = "model_download"
  /\ lastOp.a.status = "completed"
  /\ modelDownloadState = "completed"
  /\ storageMigrationState = "error"

(***************************************************************************)
(* The dictionary cache during hydration.                                  *)
(***************************************************************************)
\* the step applies the answer to the get_dictionary request of the
\* hydration
AppliesDictionaryAnswer ==
  /\ lastOp'.op = "message"
  /\ lastOp'.a.type = "response"
  /\ lastOp'.a.request_id \in DOMAIN pending
  /\ calls[pending[lastOp'.a.request_id].call].type = "get_dictionary"

\* C34: a dictionary_updated or dictionary_deleted event received before
\* the get_dictionary request of the hydration is answered is applied to
\* the cache at once, and its effect still holds when the hydration
\* completes: the entries that events put in the cache, which was empty
\* when the hydration began, keep their values, and the key that the last
\* event deleted stays out of it.
C34_MutationWinsOverBaseline ==
  [][/\ (lastOp'.op = "message" /\ lastOp'.a.type = "dictionary_updated")
          => /\ lastOp'.a.key \in DOMAIN dictionaryEntries'
             /\ dictionaryEntries'[lastOp'.a.key] = lastOp'.a.value
     /\ (lastOp'.op = "message" /\ lastOp'.a.type = "dictionary_deleted")
          => lastOp'.a.key \notin DOMAIN dictionaryEntries'
     /\ AppliesDictionaryAnswer
          => /\ \A key \in DOMAIN dictionaryEntries :
                   /\ key \in DOMAIN dictionaryEntries'
                   /\ dictionaryEntries'[key] = dictionaryEntries[key]
             /\ (lastOp.op = "message" /\ lastOp.a.type = "dictionary_deleted")
                  => lastOp.a.key \notin DOMAIN dictionaryEntries']_vars

====
